---------------------------- MODULE Spec2Model ----------------------------
(***************************************************************************)
(* A model of kyber768_complete.py: the ring arithmetic, the samplers, the *)
(* compression codec and the three KEM operations of class Kyber768, with  *)
(* the harness of test_kyber768 (keygen, encapsulate, decapsulate) and     *)
(* direct calls of the module's functions.                                 *)
(*                                                                         *)
(* Python lists and byte strings are sequences (index i of the code is     *)
(* index i+1 here).  The ring degree is scaled: the code has N = 256 and   *)
(* 32-byte messages, the model N = 8 * MsgBytes and MsgBytes-byte          *)
(* messages; q, K, eta, DU and DV are the code's.                          *)
(***************************************************************************)
EXTENDS Integers, Sequences, FiniteSets, TLC

\* ------------------------------------------------------------------ bounds
\* Bytes of a message (32 in the code); the ring degree follows from it.
MsgBytes == 1
\* The outcomes of the randomness source the model explores: 0..MaxEntropy.
MaxEntropy == 11
\* mod_q is called on the integers -MaxAbsX..MaxAbsX.
MaxAbsX == 7000
\* The seeds uniform_sample is called with directly start at 0..MaxSeedStart.
MaxSeedStart == 15
\* masked_multiplication is called with bit lengths 0..MaxBits and operands
\* 0..MaxOperand.
MaxBits == 3
MaxOperand == 10
\* The longest list the array functions are called with, and the most
\* indices scatter_gather_load is asked for.
MaxListLen == 3
MaxIndices == 2
\* The groups of the XOF stream whose positions a uniform_sample run tells
\* apart, beyond the N / 2 that fill a polynomial.
MaxSpareGroups == 2
\* The CSRF validator: the clock runs over 0..MaxTime seconds, with at most
\* MaxTokens generate_token and MaxValidations validate_token calls.
MaxTime == 2
MaxTokens == 2
MaxValidations == 2
\* token_expiry, in seconds: 3600 by default, 60 in test_csrf_validator.
TokenExpiry == 1
\* The size of issued_tokens and of used_tokens above which generate_token
\* cleans up, scaled with the number of tokens: 10000 in the code.
CleanupThreshold == 0

\* ----------------------------------------------------- Kyber-768 parameters
N == 8 * MsgBytes
Q == 3329
K == 3
ETA1 == 2
ETA2 == 2
DU == 10
DV == 4

Pow2(d) == 2 ^ d

\* Python's abs().
Abs(x) == IF x < 0 THEN -x ELSE x

\* Python's round() of the rational num/den (den > 0): to the nearest integer,
\* a tie to the even one.
Round(num, den) ==
    LET f == num \div den
        r == num - f * den
    IN  IF 2 * r < den THEN f
        ELSE IF 2 * r > den THEN f + 1
        ELSE IF f % 2 = 0 THEN f ELSE f + 1

\* Python's None.
None == <<>>

\* (byte >> i) & 1
Bit(byte, i) == (byte \div Pow2(i)) % 2

\* ------------------------------------------------------------ mod_q
\* mod_q with the comparison >= in place of >.
mod_q_ge(x) ==
    LET r == x % Q
    IN  IF r >= Q \div 2 THEN r - Q ELSE r

mod_q(x) ==
    LET r == x % Q
    IN  IF r > Q \div 2 THEN r - Q ELSE r


\* ------------------------------------------------- the randomness source
\* secrets.token_bytes(n): the n bytes that call number c (0, 1, ...) of a run
\* returns under outcome g of the operating system's randomness source.
\* Outcome 0 is the all-zero source; the others spread over all byte values.
token_bytes(g, c, n) ==
    [k \in 1..n |-> (g * ((37 * g + 101 * c + 59 * k + 11) % 257)
                       + g * g * (c + 3) * k) % 256]

\* ------------------------------------------------------------ the XOF
\* hashlib.shake_128(data): the absorbed state of the byte string data.
RECURSIVE shake_128_absorb(_, _)
shake_128_absorb(h, data) ==
    IF data = <<>> THEN h
    ELSE shake_128_absorb((h * 251 + Head(data) + 7) % 65521, Tail(data))

shake_128(data) == shake_128_absorb(1, data)

\* xof.digest(n)[pos]: byte pos (0, 1, ...) of the output stream; digest does
\* not consume, every call returns the stream from its start.
xof_digest_byte(xof, pos) ==
    ((((((xof + 1) * (pos + 1)) % 65521) * 7919) % 65521) + pos * 113) % 256

\* ------------------------------------------------------------ cbd_sample
RECURSIVE cbd_bits(_, _, _, _)
\* The sum over j in range(cnt) of bit (first + j) of the buffer.
cbd_bits(randomness, first, cnt, acc) ==
    IF cnt = 0 THEN acc
    ELSE cbd_bits(randomness, first + 1, cnt - 1,
                  acc + Bit(randomness[(first \div 8) + 1], first % 8))

\* cbd_sample adding the second group where it is to be subtracted.
cbd_sample_adding(eta, randomness) ==
    [i1 \in 1..N |->
        LET i == i1 - 1
            a == cbd_bits(randomness, 2 * i * eta, eta, 0)
            b == cbd_bits(randomness, 2 * i * eta + eta, eta, 0)
        IN  mod_q(a + b)]

cbd_sample(eta, randomness) ==
    [i1 \in 1..N |->
        LET i == i1 - 1
            a == cbd_bits(randomness, 2 * i * eta, eta, 0)
            b == cbd_bits(randomness, 2 * i * eta + eta, eta, 0)
        IN  mod_q(a - b)]

\* cbd_sample statement by statement, with the reads of randomness it makes.
\* The bit numbers 2 * i * eta + j and 2 * i * eta + eta + j of the inner
\* loop:
cbd_a_index(eta, i, j) == 2 * i * eta + j
\* the second bit number without the second eta: it starts on the last bit of
\* the first group,
cbd_b_index_overlapping(eta, i, j) == 2 * i * eta + eta + j - 1
cbd_b_index(eta, i, j) == 2 * i * eta + eta + j
\* a read: byte_pos and bit_pos,
cbd_read(n) == [byte_pos |-> n \div 8, bit_pos |-> n % 8]
\* (randomness[byte_pos] >> bit_pos) & 1,
cbd_bit(randomness, read) == Bit(randomness[read.byte_pos + 1], read.bit_pos)
\* and the two loops from coefficient i, bit j on, with the sums a and b so
\* far, the polynomial so far (its entry i1 = i + 1 is poly[i]) and the reads
\* made so far.
RECURSIVE cbd_sample_loop(_, _, _, _, _, _, _, _)
cbd_sample_loop(eta, randomness, i, j, a, b, poly, reads) ==
    IF i = N THEN [poly |-> poly, reads |-> reads]
    ELSE IF j = eta
    THEN cbd_sample_loop(eta, randomness, i + 1, 0, 0, 0,
                         [poly EXCEPT ![i + 1] = mod_q(a - b)], reads)
    ELSE LET read_a == cbd_read(cbd_a_index(eta, i, j))
             read_b == cbd_read(cbd_b_index(eta, i, j))
         IN  cbd_sample_loop(eta, randomness, i, j + 1,
                             a + cbd_bit(randomness, read_a),
                             b + cbd_bit(randomness, read_b),
                             poly, reads \o <<read_a, read_b>>)
cbd_sample_trace(eta, randomness) ==
    cbd_sample_loop(eta, randomness, 0, 0, 0, 0, [i1 \in 1..N |-> 0], <<>>)

\* ---------------------------------------------------------- uniform_sample
\* The loop appending d % Q for every candidate d, rejecting none.
RECURSIVE uniform_sample_loop_reducing(_, _, _)
uniform_sample_loop_reducing(xof, poly, ctr) ==
    IF ~(Len(poly) < N) THEN poly
    ELSE LET b0 == xof_digest_byte(xof, 3 * ctr)
             b1 == xof_digest_byte(xof, 3 * ctr + 1)
             b2 == xof_digest_byte(xof, 3 * ctr + 2)
             d1 == (b0 + 256 * b1) % 4096
             d2 == ((b1 \div 16) + 16 * b2) % 4096
             p1 == Append(poly, d1 % Q)
             p2 == IF Len(p1) < N THEN Append(p1, d2 % Q) ELSE p1
         IN  uniform_sample_loop_reducing(xof, p2, ctr + 1)

RECURSIVE uniform_sample_loop(_, _, _)
uniform_sample_loop(xof, poly, ctr) ==
    IF ~(Len(poly) < N) THEN poly
    ELSE LET b0 == xof_digest_byte(xof, 3 * ctr)
             b1 == xof_digest_byte(xof, 3 * ctr + 1)
             b2 == xof_digest_byte(xof, 3 * ctr + 2)
             d1 == (b0 + 256 * b1) % 4096
             d2 == ((b1 \div 16) + 16 * b2) % 4096
             p1 == IF d1 < Q THEN Append(poly, d1) ELSE poly
             p2 == IF Len(p1) < N /\ d2 < Q THEN Append(p1, d2) ELSE p1
         IN  uniform_sample_loop(xof, p2, ctr + 1)

uniform_sample(seed, i, j) ==
    LET poly == uniform_sample_loop(shake_128(seed \o <<i, j>>), <<>>, 0)
    IN  SubSeq(poly, 1, IF Len(poly) < N THEN Len(poly) ELSE N)

\* uniform_sample statement by statement.  Before the call:
IdleSampler ==
    [status |-> "idle", poly |-> <<>>, ctr |-> 0, three_bytes |-> None,
     value |-> None]
\* The two 12-bit values of a group of three bytes.
uniform_sample_d1(three_bytes) ==
    (three_bytes[1] + 256 * three_bytes[2]) % 4096
uniform_sample_d2(three_bytes) ==
    ((three_bytes[2] \div 16) + 16 * three_bytes[3]) % 4096
\* One pass of the loop body that appends d2 whatever the length of poly.
uniform_sample_iteration_overfull(poly, three_bytes) ==
    LET d1 == uniform_sample_d1(three_bytes)
        d2 == uniform_sample_d2(three_bytes)
        p1 == IF d1 < Q THEN Append(poly, d1) ELSE poly
    IN  IF d2 < Q THEN Append(p1, d2) ELSE p1
\* One pass of the loop body on the group three_bytes: the new poly, or
\* break.
uniform_sample_iteration(poly, three_bytes) ==
    LET d1 == uniform_sample_d1(three_bytes)
        d2 == uniform_sample_d2(three_bytes)
        p1 == IF d1 < Q THEN Append(poly, d1) ELSE poly
    IN  IF Len(p1) < N /\ d2 < Q THEN Append(p1, d2) ELSE p1

\* --------------------------------------------------------- ring arithmetic
poly_add_raises(a, b) == Len(a) < N \/ Len(b) < N

poly_add(a, b) == [i \in 1..N |-> mod_q(a[i] + b[i])]

poly_sub_raises(a, b) == Len(a) < N \/ Len(b) < N

\* poly_sub with its operands exchanged.
poly_sub_reversed(a, b) == [i \in 1..N |-> mod_q(b[i] - a[i])]

poly_sub(a, b) == [i \in 1..N |-> mod_q(a[i] - b[i])]

vector_add_raises(v1, v2) ==
    \E i \in 1..Len(v1) : Len(v2) < i \/ poly_add_raises(v1[i], v2[i])

\* vector_add over range(len(v1) - 1).
vector_add_short(v1, v2) == [i \in 1..(Len(v1) - 1) |-> poly_add(v1[i], v2[i])]

vector_add(v1, v2) == [i \in 1..Len(v1) |-> poly_add(v1[i], v2[i])]

\* [0] * N
zero_poly == [i \in 1..N |-> 0]

RECURSIVE negacyclic_sum(_, _, _, _)
\* The sum over i in 0..i_max of a_i * b_(k-i), the terms that wrap past
\* X^N taken with a minus sign (X^N = -1), reduced mod q as it goes.
negacyclic_sum(a, b, k, i) ==
    IF i < 0 THEN 0
    ELSE LET j == (k - i) % N
             term == ((a[i + 1] % Q) * (b[j + 1] % Q)) % Q
             signed == IF i > k THEN Q - term ELSE term
         IN  (signed + negacyclic_sum(a, b, k, i - 1)) % Q

\* kyber_ntt_final_working.poly_mul: the product in Z_q[X]/(X^N + 1).
poly_mul_raises(a, b) == Len(a) # N \/ Len(b) # N

poly_mul(a, b) == [k1 \in 1..N |-> negacyclic_sum(a, b, k1 - 1, N - 1)]

RECURSIVE matrix_row_acc(_, _, _, _)
\* The inner loop of matrix_vector_mul over j in range(k), from column j on.
matrix_row_acc(row, v, j, row_result) ==
    IF j > Len(v) THEN row_result
    ELSE matrix_row_acc(row, v, j + 1,
                        poly_add(row_result, poly_mul(row[j], v[j])))

matrix_vector_mul_raises(A, v) ==
    \E i \in 1..Len(v) :
        \/ Len(A) < i
        \/ \E j \in 1..Len(v) :
              Len(A[i]) < j \/ poly_mul_raises(A[i][j], v[j])

\* matrix_vector_mul reading A[j][i] for A[i][j].
matrix_vector_mul_transposed(A, v) ==
    [i \in 1..Len(v) |->
        matrix_row_acc([j \in 1..Len(v) |-> A[j][i]], v, 1, zero_poly)]

matrix_vector_mul(A, v) ==
    [i \in 1..Len(v) |-> matrix_row_acc(A[i], v, 1, zero_poly)]

RECURSIVE vector_dot_acc(_, _, _, _)
vector_dot_acc(v1, v2, i, result) ==
    IF i > Len(v1) THEN result
    ELSE vector_dot_acc(v1, v2, i + 1,
                        poly_add(result, poly_mul(v1[i], v2[i])))

vector_dot_raises(v1, v2) ==
    \E i \in 1..Len(v1) : Len(v2) < i \/ poly_mul_raises(v1[i], v2[i])

\* vector_dot over range(1, len(v1)).
vector_dot_skips_first(v1, v2) == vector_dot_acc(v1, v2, 2, zero_poly)

vector_dot(v1, v2) == vector_dot_acc(v1, v2, 1, zero_poly)

\* ------------------------------------------------------ compression codec
\* compress with int() in place of round().
compress_truncating(poly, d) ==
    [i \in 1..Len(poly) |-> ((Pow2(d) * poly[i]) \div Q) % Pow2(d)]

\* compress without the final % (2**d).
compress_unreduced(poly, d) ==
    [i \in 1..Len(poly) |-> Round(Pow2(d) * poly[i], Q)]

\* round((2**d / Q) * x) % (2**d).  The float product is within 1e-12 of the
\* rational 2^d * x / Q, which is never within 1/(2Q) of a tie (Q is odd), so
\* round() returns the nearest integer of the rational.
compress(poly, d) ==
    [i \in 1..Len(poly) |-> Round(Pow2(d) * poly[i], Q) % Pow2(d)]

\* round((Q / 2**d) * x): Q / 2**d and its products are exact in binary
\* floating point; the tie at x = 2^(d-1) goes to the even integer.
decompress(poly, d) ==
    [i \in 1..Len(poly) |-> Round(Q * poly[i], Pow2(d))]

\* encode_message taking the bits of a byte from the top one down.
encode_message_msb_first(msg) ==
    [n \in 1..(8 * Len(msg)) |->
        LET byte == msg[((n - 1) \div 8) + 1]
            i == (n - 1) % 8
        IN  Bit(byte, 7 - i) * (Q \div 2)]

encode_message(msg) ==
    [n \in 1..(8 * Len(msg)) |->
        LET byte == msg[((n - 1) \div 8) + 1]
            i == (n - 1) % 8
        IN  Bit(byte, i) * (Q \div 2)]

\* decode_message with its outer loop run one byte too far.
decode_message_reads_past(poly) == Len(poly) < N + 8

decode_message_raises(poly) == Len(poly) < N

RECURSIVE decode_byte(_, _, _)
\* The inner loop over j in range(8) for the byte starting at coefficient i.
decode_byte(poly, i, j) ==
    IF j >= 8 THEN 0
    ELSE LET bit == IF Abs(poly[i + j + 1] - Q \div 2) < Q \div 4 THEN 1 ELSE 0
         IN  bit * Pow2(j) + decode_byte(poly, i, j + 1)

decode_message(poly) ==
    [k \in 1..(N \div 8) |-> decode_byte(poly, 8 * (k - 1), 0)]

\* hashlib.sha256(m).digest(): 32 bytes, a different value for a different m.
sha256(m) == [digest_size |-> 32, of |-> m]

\* ------------------------------------------------------------ Kyber768
\* Bytes of a seed and of a message: 32 in the code, where N // 8 = 32.
SeedBytes == N \div 8
\* Bytes of a sampling buffer: 64 * eta in the code, where N // 4 = 64.
CbdBytes(eta) == (N \div 4) * eta

\* The loops that build A (keygen) and rebuild it (encapsulate).
keygen_A(rho) ==
    [i1 \in 1..K |-> [j1 \in 1..K |-> uniform_sample(rho, i1 - 1, j1 - 1)]]

encapsulate_A_swapped(public_key) ==
    [i1 \in 1..K |->
        [j1 \in 1..K |-> uniform_sample(public_key.rho, j1 - 1, i1 - 1)]]

encapsulate_A(public_key) ==
    [i1 \in 1..K |->
        [j1 \in 1..K |-> uniform_sample(public_key.rho, i1 - 1, j1 - 1)]]

\* keygen sampling e from the buffers it sampled s from, without drawing
\* again.
keygen_reusing_buffers(g) ==
    LET rho == token_bytes(g, 0, SeedBytes)
        sigma == token_bytes(g, 1, SeedBytes)
        A == keygen_A(rho)
        s == [i1 \in 1..K |->
                cbd_sample(ETA1, token_bytes(g, 1 + i1, CbdBytes(ETA1)))]
        e == s
        t == vector_add(matrix_vector_mul(A, s), e)
    IN  [public_key |-> [rho |-> rho, t |-> t],
         secret_key |-> [s |-> s],
         A |-> A, s |-> s, e |-> e,
         drawn |-> <<rho, sigma>>
                   \o [i1 \in 1..K |-> token_bytes(g, 1 + i1, CbdBytes(ETA1))]]

\* Kyber768.keygen under outcome g of the randomness source: the returned
\* keys, with the locals A, s and e and the byte strings drawn, in order.  Draws 0 and 1 are rho and sigma, draws
\* 2..4 the buffers of s, draws 5..7 those of e.
keygen(g) ==
    LET rho == token_bytes(g, 0, SeedBytes)
        sigma == token_bytes(g, 1, SeedBytes)
        A == keygen_A(rho)
        s == [i1 \in 1..K |->
                cbd_sample(ETA1, token_bytes(g, 1 + i1, CbdBytes(ETA1)))]
        e == [i1 \in 1..K |->
                cbd_sample(ETA1, token_bytes(g, 1 + K + i1, CbdBytes(ETA1)))]
        As == matrix_vector_mul(A, s)
        t == vector_add(As, e)
    IN  [public_key |-> [rho |-> rho, t |-> t],
         secret_key |-> [s |-> s],
         A |-> A, s |-> s, e |-> e,
         drawn |-> <<rho, sigma>>
                   \o [i1 \in 1..K |-> token_bytes(g, 1 + i1, CbdBytes(ETA1))]
                   \o [i1 \in 1..K |->
                          token_bytes(g, 1 + K + i1, CbdBytes(ETA1))]]

\* Kyber768.encapsulate under outcome g: the returned ciphertext and shared
\* secret, with the locals.  Draw 0 is m, draws 1..3 the buffers of r, draws
\* 4..6 those of e1, draw 7 that of e2.
encapsulate(public_key, g) ==
    LET m == token_bytes(g, 0, SeedBytes)
        m_poly == encode_message(m)
        A == encapsulate_A(public_key)
        r == [i1 \in 1..K |->
                cbd_sample(ETA1, token_bytes(g, i1, CbdBytes(ETA1)))]
        e1 == [i1 \in 1..K |->
                cbd_sample(ETA2, token_bytes(g, K + i1, CbdBytes(ETA2)))]
        e2 == cbd_sample(ETA2, token_bytes(g, 2 * K + 1, CbdBytes(ETA2)))
        At_r == matrix_vector_mul(A, r)
        u == vector_add(At_r, e1)
        t == public_key.t
        t_dot_r == vector_dot(t, r)
        v == poly_add(poly_add(t_dot_r, e2), m_poly)
        u_compressed == [i1 \in 1..Len(u) |-> compress(u[i1], DU)]
        v_compressed == compress(v, DV)
    IN  [ciphertext |-> [u |-> u_compressed, v |-> v_compressed],
         shared_secret |-> sha256(m),
         m |-> m, A |-> A, r |-> r, e1 |-> e1, e2 |-> e2, u |-> u, v |-> v,
         drawn |-> <<m>>
                   \o [i1 \in 1..K |-> token_bytes(g, i1, CbdBytes(ETA1))]
                   \o [i1 \in 1..K |-> token_bytes(g, K + i1, CbdBytes(ETA2))]
                   \o <<token_bytes(g, 2 * K + 1, CbdBytes(ETA2))>>]

\* Kyber768.decapsulate: whether it raises, and what it returns with its
\* locals.
decapsulate_raises(ciphertext, secret_key) ==
    LET u == [i1 \in 1..Len(ciphertext.u) |-> decompress(ciphertext.u[i1], DU)]
        v == decompress(ciphertext.v, DV)
        s == secret_key.s
    IN  \/ vector_dot_raises(s, u)
        \/ poly_sub_raises(v, vector_dot(s, u))
        \/ decode_message_raises(poly_sub(v, vector_dot(s, u)))

decapsulate(ciphertext, secret_key) ==
    LET u == [i1 \in 1..Len(ciphertext.u) |-> decompress(ciphertext.u[i1], DU)]
        v == decompress(ciphertext.v, DV)
        s == secret_key.s
        s_dot_u == vector_dot(s, u)
        m_poly == poly_sub(v, s_dot_u)
        m == decode_message(m_poly)
    IN  [shared_secret |-> sha256(m),
         u |-> u, v |-> v, m_poly |-> m_poly, m |-> m,
         drawn |-> <<>>]

\* ------------------------------------------- the same functions on objects
\* Python's lists and dicts are objects: a name or a list item is a reference
\* to one, and a function can change the object an argument refers to or
\* return it.  The heap is the list of the objects created so far, a
\* reference is a position in it.  An object is a list of integers (a
\* polynomial, a byte string) or a list or a dict of references.
IntList(items) == [refs |-> FALSE, keys |-> <<>>, items |-> items]
RefList(items) == [refs |-> TRUE, keys |-> <<>>, items |-> items]
Dict(keys, items) == [refs |-> TRUE, keys |-> keys, items |-> items]
\* A new object: the heap with it, and the reference to it.
NewObject(heap, obj) == [heap |-> Append(heap, obj), ref |-> Len(heap) + 1]
\* d[key]
DictItem(heap, d, key) ==
    heap[d].items[CHOOSE n \in 1..Len(heap[d].keys) : heap[d].keys[n] = key]

\* poly_add writing the sums into its first argument and returning it.
poly_add_in_place(heap, a, b) ==
    [heap |-> [heap EXCEPT ![a].items = poly_add(heap[a].items, heap[b].items)],
     ref |-> a]
\* poly_add, poly_sub, compress and decompress return a list comprehension,
\* a new list.
poly_add_on(heap, a, b) ==
    NewObject(heap, IntList(poly_add(heap[a].items, heap[b].items)))
poly_sub_on(heap, a, b) ==
    NewObject(heap, IntList(poly_sub(heap[a].items, heap[b].items)))
compress_on(heap, poly, d) ==
    NewObject(heap, IntList(compress(heap[poly].items, d)))
decompress_on(heap, poly, d) ==
    NewObject(heap, IntList(decompress(heap[poly].items, d)))
\* poly_mul returns the product as a new list and leaves a and b alone.
poly_mul_on(heap, a, b) ==
    NewObject(heap, IntList(poly_mul(heap[a].items, heap[b].items)))

\* A statement that assigns a name: value is computed, once, and the rest
\* of the function runs with it.
With(value, Rest(_)) == CHOOSE out \in {Rest(x) : x \in {value}} : TRUE

\* vector_add: [poly_add(v1[i], v2[i]) for i in range(len(v1))], from item i
\* on, the references to the sums so far in out.
RECURSIVE vector_add_on_loop(_, _, _, _, _)
vector_add_on_loop(heap, v1, v2, i, out) ==
    IF i > Len(heap[v1].items) THEN NewObject(heap, RefList(out))
    ELSE With(poly_add_on(heap, heap[v1].items[i], heap[v2].items[i]),
              LAMBDA sum :
         vector_add_on_loop(sum.heap, v1, v2, i + 1, Append(out, sum.ref)))
vector_add_on(heap, v1, v2) == vector_add_on_loop(heap, v1, v2, 1, <<>>)

\* matrix_vector_mul: the inner loop of row i from column j on,
RECURSIVE matrix_row_on(_, _, _, _, _, _)
matrix_row_on(heap, A, v, i, j, row_result) ==
    IF j > Len(heap[v].items) THEN [heap |-> heap, ref |-> row_result]
    ELSE With(poly_mul_on(heap, heap[heap[A].items[i]].items[j],
                          heap[v].items[j]),
              LAMBDA product :
         With(poly_add_on(product.heap, row_result, product.ref),
              LAMBDA sum :
         matrix_row_on(sum.heap, A, v, i, j + 1, sum.ref)))
\* the outer loop from row i on: row_result = [0] * N, the inner loop,
\* result.append(row_result),
RECURSIVE matrix_rows_on(_, _, _, _, _)
matrix_rows_on(heap, A, v, i, result) ==
    IF i > Len(heap[v].items) THEN [heap |-> heap, ref |-> result]
    ELSE With(NewObject(heap, IntList(zero_poly)),
              LAMBDA zeros :
         With(matrix_row_on(zeros.heap, A, v, i, 1, zeros.ref),
              LAMBDA row :
         matrix_rows_on([row.heap EXCEPT ![result].items = Append(@, row.ref)],
                        A, v, i + 1, result)))
\* and the function: result = [], the loops, return result.
matrix_vector_mul_on(heap, A, v) ==
    With(NewObject(heap, RefList(<<>>)),
         LAMBDA result :
    matrix_rows_on(result.heap, A, v, 1, result.ref))

\* vector_dot: result = [0] * N, then the loop from item i on.
RECURSIVE vector_dot_on_loop(_, _, _, _, _)
vector_dot_on_loop(heap, v1, v2, i, result) ==
    IF i > Len(heap[v1].items) THEN [heap |-> heap, ref |-> result]
    ELSE With(poly_mul_on(heap, heap[v1].items[i], heap[v2].items[i]),
              LAMBDA product :
         With(poly_add_on(product.heap, result, product.ref),
              LAMBDA sum :
         vector_dot_on_loop(sum.heap, v1, v2, i + 1, sum.ref)))
vector_dot_on(heap, v1, v2) ==
    With(NewObject(heap, IntList(zero_poly)),
         LAMBDA zeros :
    vector_dot_on_loop(zeros.heap, v1, v2, 1, zeros.ref))

\* The objects of a value that a call builds item by item: a list of
\* integers (depth 0), a list of such lists (depth 1), a list of those
\* (depth 2).
RECURSIVE NewValue(_, _, _)
RECURSIVE NewItems(_, _, _, _, _)
NewValue(heap, value, depth) ==
    IF depth = 0 THEN NewObject(heap, IntList(value))
    ELSE NewItems(heap, value, depth, 1, <<>>)
NewItems(heap, values, depth, i, refs) ==
    IF i > Len(values) THEN NewObject(heap, RefList(refs))
    ELSE With(NewValue(heap, values[i], depth - 1),
              LAMBDA item :
         NewItems(item.heap, values, depth, i + 1, Append(refs, item.ref)))

\* [compress(u_i, d) for u_i in u] and [decompress(u_i, d) for u_i in u]
\* from item i on.
RECURSIVE compress_each_on(_, _, _, _, _)
compress_each_on(heap, u, d, i, out) ==
    IF i > Len(heap[u].items) THEN NewObject(heap, RefList(out))
    ELSE With(compress_on(heap, heap[u].items[i], d),
              LAMBDA c :
         compress_each_on(c.heap, u, d, i + 1, Append(out, c.ref)))
RECURSIVE decompress_each_on(_, _, _, _, _)
decompress_each_on(heap, u, d, i, out) ==
    IF i > Len(heap[u].items) THEN NewObject(heap, RefList(out))
    ELSE With(decompress_on(heap, heap[u].items[i], d),
              LAMBDA c :
         decompress_each_on(c.heap, u, d, i + 1, Append(out, c.ref)))

\* Kyber768.encapsulate on the public key object, under outcome g, part by
\* part; each part hands the heap and the references of its locals on.
\* m, m_poly and A (lines 255-268).
encapsulate_on_message(heap, public_key, g) ==
    With(NewObject(heap, IntList(token_bytes(g, 0, SeedBytes))),
         LAMBDA m :
    With(NewObject(m.heap, IntList(encode_message(m.heap[m.ref].items))),
         LAMBDA m_poly :
    With(DictItem(m_poly.heap, public_key, "rho"),
         LAMBDA rho :
    With(NewValue(m_poly.heap, keygen_A(m_poly.heap[rho].items), 2),
         LAMBDA A :
    [heap |-> A.heap, m |-> m.ref, m_poly |-> m_poly.ref, A |-> A.ref]))))
\* r, e1 and e2 (lines 270-286).
encapsulate_on_samples(locals, g) ==
    With(NewValue(locals.heap,
                  [i1 \in 1..K |->
                      cbd_sample(ETA1, token_bytes(g, i1, CbdBytes(ETA1)))],
                  1),
         LAMBDA r :
    With(NewValue(r.heap,
                  [i1 \in 1..K |->
                      cbd_sample(ETA2, token_bytes(g, K + i1, CbdBytes(ETA2)))],
                  1),
         LAMBDA e1 :
    With(NewValue(e1.heap,
                  cbd_sample(ETA2, token_bytes(g, 2 * K + 1, CbdBytes(ETA2))),
                  0),
         LAMBDA e2 :
    [heap |-> e2.heap, m |-> locals.m, m_poly |-> locals.m_poly,
     A |-> locals.A, r |-> r.ref, e1 |-> e1.ref, e2 |-> e2.ref])))
\* u and v (lines 288-297).
encapsulate_on_u_v(locals, public_key) ==
    With(matrix_vector_mul_on(locals.heap, locals.A, locals.r),
         LAMBDA At_r :
    With(vector_add_on(At_r.heap, At_r.ref, locals.e1),
         LAMBDA u :
    With(DictItem(u.heap, public_key, "t"),
         LAMBDA t :
    With(vector_dot_on(u.heap, t, locals.r),
         LAMBDA t_dot_r :
    With(poly_add_on(t_dot_r.heap, t_dot_r.ref, locals.e2),
         LAMBDA v1 :
    With(poly_add_on(v1.heap, v1.ref, locals.m_poly),
         LAMBDA v :
    [heap |-> v.heap, m |-> locals.m, u |-> u.ref, v |-> v.ref]))))))
\* The compression and the return (lines 299-308): the heap after the call,
\* the reference to the ciphertext, the shared secret.
encapsulate_on_return(locals) ==
    With(compress_each_on(locals.heap, locals.u, DU, 1, <<>>),
         LAMBDA u_compressed :
    With(compress_on(u_compressed.heap, locals.v, DV),
         LAMBDA v_compressed :
    With(NewObject(v_compressed.heap,
                   Dict(<<"u", "v">>, <<u_compressed.ref, v_compressed.ref>>)),
         LAMBDA ciphertext :
    [heap |-> ciphertext.heap, ref |-> ciphertext.ref,
     shared_secret |-> sha256(locals.heap[locals.m].items)])))
encapsulate_on(heap, public_key, g) ==
    With(encapsulate_on_message(heap, public_key, g),
         LAMBDA message :
    With(encapsulate_on_samples(message, g),
         LAMBDA samples :
    With(encapsulate_on_u_v(samples, public_key),
         LAMBDA u_v :
    encapsulate_on_return(u_v))))

\* Kyber768.decapsulate on the ciphertext and secret key objects: the heap
\* after the call and the shared secret.
decapsulate_on(heap, ciphertext, secret_key) ==
    With(DictItem(heap, ciphertext, "u"),
         LAMBDA u_compressed :
    With(DictItem(heap, ciphertext, "v"),
         LAMBDA v_compressed :
    With(decompress_each_on(heap, u_compressed, DU, 1, <<>>),
         LAMBDA u :
    With(decompress_on(u.heap, v_compressed, DV),
         LAMBDA v :
    With(DictItem(v.heap, secret_key, "s"),
         LAMBDA s :
    With(vector_dot_on(v.heap, s, u.ref),
         LAMBDA s_dot_u :
    With(poly_sub_on(s_dot_u.heap, v.ref, s_dot_u.ref),
         LAMBDA m_poly :
    With(decode_message(m_poly.heap[m_poly.ref].items),
         LAMBDA m :
    [heap |-> m_poly.heap, ref |-> 0, shared_secret |-> sha256(m)]))))))))


\* ------------------------------------------- Kyber768: a call step by step
\* The steps of a call, in the order of the code: a draw is one
\* secrets.token_bytes call, matrix the loops that build A, compute the
\* arithmetic after the last draw, return the return statement.
Program(op) ==
    CASE op = "keygen" ->
            <<"draw", "draw", "matrix", "draw", "draw", "draw", "draw", "draw",
              "draw", "compute", "return">>
      [] op = "encapsulate" ->
            <<"draw", "matrix", "draw", "draw", "draw", "draw", "draw", "draw",
              "draw", "compute", "return">>
      [] op = "decapsulate" -> <<"compute", "return">>

\* The number of bytes draw number c (0, 1, ...) of a call asks for.
DrawBytes(op, c) ==
    IF op = "keygen"
    THEN IF c < 2 THEN SeedBytes ELSE CbdBytes(ETA1)
    ELSE IF c < 1 THEN SeedBytes
         ELSE IF c <= K THEN CbdBytes(ETA1) ELSE CbdBytes(ETA2)

\* The locals of a call: the byte strings drawn so far, the matrix, and in
\* out the value the call is about to return, once it is computed.
NoLocals == [drawn |-> <<>>, A |-> None, out |-> <<>>]

\* The threads that call into one Kyber768 object.
Threads == {"first", "second"}

\* A thread that has made no call: no task, no draw made, nothing returned.
IdleThread ==
    [status |-> "idle", pc |-> 0, task |-> None, draws |-> 0, result |-> <<>>]

\* keygen after its last draw (lines 221-242), on the locals.
keygen_compute(locals) ==
    LET rho == locals.drawn[1]
        s == [i1 \in 1..K |-> cbd_sample(ETA1, locals.drawn[2 + i1])]
        e == [i1 \in 1..K |-> cbd_sample(ETA1, locals.drawn[2 + K + i1])]
        As == matrix_vector_mul(locals.A, s)
        t == vector_add(As, e)
    IN  [public_key |-> [rho |-> rho, t |-> t], secret_key |-> [s |-> s]]

\* encapsulate after its last draw (lines 257-308), on the locals.
encapsulate_compute(public_key, locals) ==
    LET m == locals.drawn[1]
        m_poly == encode_message(m)
        r == [i1 \in 1..K |-> cbd_sample(ETA1, locals.drawn[1 + i1])]
        e1 == [i1 \in 1..K |-> cbd_sample(ETA2, locals.drawn[1 + K + i1])]
        e2 == cbd_sample(ETA2, locals.drawn[2 + 2 * K])
        At_r == matrix_vector_mul(locals.A, r)
        u == vector_add(At_r, e1)
        t_dot_r == vector_dot(public_key.t, r)
        v == poly_add(poly_add(t_dot_r, e2), m_poly)
    IN  [ciphertext |-> [u |-> [i1 \in 1..Len(u) |-> compress(u[i1], DU)],
                         v |-> compress(v, DV)],
         shared_secret |-> sha256(m)]

\* One step of the call task on its locals.  A draw returns the bytes of
\* outcome task.g of the randomness source.
StepLocals(task, step, locals) ==
    CASE step = "draw" ->
            [locals EXCEPT !.drawn =
                Append(@, token_bytes(task.g, Len(@),
                                      DrawBytes(task.op, Len(@))))]
      [] step = "matrix" ->
            [locals EXCEPT !.A =
                IF task.op = "keygen" THEN keygen_A(locals.drawn[1])
                ELSE encapsulate_A(task.args[1])]
      [] step = "compute" ->
            [locals EXCEPT !.out =
                <<CASE task.op = "keygen" -> keygen_compute(locals)
                    [] task.op = "encapsulate" ->
                          encapsulate_compute(task.args[1], locals)
                    [] task.op = "decapsulate" ->
                          [shared_secret |->
                              decapsulate(task.args[1],
                                          task.args[2]).shared_secret]>>]

\* A draw whose failure is swallowed: the call goes on without the bytes.
draw_failure_swallowed(thread) == [thread EXCEPT !.pc = thread.pc + 1]

\* secrets.token_bytes raises: no handler in keygen or encapsulate, the
\* exception leaves the call.
draw_failure(thread) == [thread EXCEPT !.status = "raised"]

\* Every call keeping its locals in one place.
Locals_shared(t) == "first"

\* Where the call of thread t keeps its locals: a frame of its own.
Locals(t) == t

\* ------------------------------------- side_channel_mitigations.py masking
\* PowerAnalysisDefense.additive_masking(secret, bit_length) when
\* secrets.randbits(bit_length) returns mask: (masked_secret, mask).
additive_masking(secret, bit_length, mask) ==
    LET modulus == Pow2(bit_length)
        masked_secret == (secret + mask) % modulus
    IN  <<masked_secret, mask>>

\* masked_multiplication whose correction leaves out a_mask * b_mask.
masked_multiplication_short_correction(a, b, bit_length, mask_a, mask_b) ==
    LET am == additive_masking(a, bit_length, mask_a)
        bm == additive_masking(b, bit_length, mask_b)
        modulus == Pow2(bit_length)
        product_masked == (am[1] * bm[1]) % modulus
        correction == (a * bm[2] + b * am[2]) % modulus
    IN  (product_masked - correction) % modulus

\* PowerAnalysisDefense.masked_multiplication(a, b, bit_length) when the two
\* randbits calls return mask_a and mask_b.
masked_multiplication(a, b, bit_length, mask_a, mask_b) ==
    LET am == additive_masking(a, bit_length, mask_a)
        bm == additive_masking(b, bit_length, mask_b)
        a_masked == am[1]
        a_mask == am[2]
        b_masked == bm[1]
        b_mask == bm[2]
        modulus == Pow2(bit_length)
        product_masked == (a_masked * b_masked) % modulus
        correction == (a * b_mask + b * a_mask + a_mask * b_mask) % modulus
        product == (product_masked - correction) % modulus
    IN  product

\* ------------------------- side_channel_mitigations.py array access, lookup
\* Python's a & b and a | b on integers of any sign.
RECURSIVE BitAnd(_, _)
BitAnd(a, b) ==
    IF a = 0 \/ b = 0 THEN 0
    ELSE IF a = -1 THEN b
    ELSE IF b = -1 THEN a
    ELSE 2 * BitAnd(a \div 2, b \div 2) + (a % 2) * (b % 2)

RECURSIVE BitOr(_, _)
BitOr(a, b) ==
    IF a = 0 THEN b
    ELSE IF b = 0 THEN a
    ELSE IF a = -1 \/ b = -1 THEN -1
    ELSE 2 * BitOr(a \div 2, b \div 2)
         + (IF a % 2 = 1 \/ b % 2 = 1 THEN 1 ELSE 0)

\* int(condition)
int(condition) == IF condition THEN 1 ELSE 0

\* The loop of constant_time_array_access and of cache_oblivious_lookup from
\* the k-th element on (i = k - 1 in enumerate), result so far in result.
RECURSIVE select_loop(_, _, _, _)
select_loop(array, index, k, result) ==
    IF k > Len(array) THEN result
    ELSE LET i == k - 1
             val == array[k]
             is_target == (i = index)
             mask == -(int(is_target))
         IN  select_loop(array, index, k + 1, BitOr(result, BitAnd(val, mask)))

\* TimingAttackPrevention.constant_time_array_access
constant_time_array_access(array, index) == select_loop(array, index, 1, 0)

\* A lookup whose mask is int(is_target), without the minus sign.
RECURSIVE cache_oblivious_lookup_unsigned_mask_loop(_, _, _, _)
cache_oblivious_lookup_unsigned_mask_loop(table, index, k, result) ==
    IF k > Len(table) THEN result
    ELSE cache_oblivious_lookup_unsigned_mask_loop(
             table, index, k + 1,
             BitOr(result, BitAnd(table[k], int(k - 1 = index))))
cache_oblivious_lookup_unsigned_mask(table, index) ==
    cache_oblivious_lookup_unsigned_mask_loop(table, index, 1, 0)

\* CacheTimingDefense.cache_oblivious_lookup
cache_oblivious_lookup(table, index) == select_loop(table, index, 1, 0)

\* CacheTimingDefense.scatter_gather_load
scatter_gather_load(data, indices) ==
    [n \in 1..Len(indices) |-> cache_oblivious_lookup(data, indices[n])]

\* ------------------------------------------------------- csrf_validator.py
\* A token is the list of the parts its string splits into at the dots.  A
\* part is digits (the decimal n, after pad leading zeros), a word (a string
\* token_urlsafe can return, the n-th of them), a signature (hex digits) or
\* the empty string.
Digits(n, pad) == [kind |-> "digits", n |-> n, pad |-> pad]
Word(n) == [kind |-> "word", n |-> n, pad |-> 0]
HexSig(n) == [kind |-> "hex", n |-> n, pad |-> 0]
EmptyString == <<[kind |-> "empty", n |-> 0, pad |-> 0]>>

\* hmac.new(secret_key, f"{session_id}:{timestamp}:{random_part}",
\* sha256).hexdigest()[:16]: a different value for every message and key the
\* model has.
hmac_sha256_16(secret_key, session_id, timestamp, random_part) ==
    ((secret_key * 10 + session_id) * 100 + timestamp) * 100 + random_part

\* f"{timestamp}.{random_part}.{signature}"
format_token(timestamp, random_part, signature) ==
    <<Digits(timestamp, 0), Word(random_part), HexSig(signature)>>

\* token.split('.') and int(timestamp_str): whether they succeed, and the
\* three values.
parse_token(token) ==
    [ok |-> Len(token) = 3 /\ token[1].kind = "digits",
     timestamp |-> IF Len(token) >= 1 THEN token[1].n ELSE 0,
     random_part |-> IF Len(token) >= 2 THEN token[2].n ELSE 0,
     signature |-> IF Len(token) >= 3 THEN token[3] ELSE HexSig(0)]

\* CSRFTokenValidator.__init__
CSRFTokenValidator(secret_key, token_expiry) ==
    [secret_key |-> secret_key,
     token_expiry |-> token_expiry,
     issued_tokens |-> {},
     used_tokens |-> {},
     total_generated |-> 0,
     total_validated |-> 0,
     valid_count |-> 0,
     invalid_count |-> 0]

\* The dict issued_tokens is the set of its items [token, timestamp].
issued_keys(self) == {e.token : e \in self.issued_tokens}

\* Every token counted as issued, whatever the dict holds.
is_issued_always(self, token) == TRUE

\* token in self.issued_tokens
is_issued(self, token) == token \in issued_keys(self)

\* Expiry one second late.
is_expired_late(self, age_seconds) == age_seconds > self.token_expiry + 1

\* age_seconds > self.token_expiry
is_expired(self, age_seconds) == age_seconds > self.token_expiry

\* _cleanup_old_tokens at time current_time.
cleanup_old_tokens(self, current_time) ==
    LET cutoff_time == current_time - self.token_expiry
    IN  [self EXCEPT
            !.issued_tokens = {e \in self.issued_tokens :
                                  e.timestamp > cutoff_time},
            !.used_tokens = IF Cardinality(self.used_tokens) > CleanupThreshold
                            THEN {}
                            ELSE self.used_tokens]

\* A session_id that message.encode('utf-8') cannot encode, a string with a
\* lone surrogate such as json.loads('"\\ud800"') returns.
UnencodableSession == 0

\* message.encode('utf-8') raises UnicodeEncodeError.
encode_raises(session_id) == session_id = UnencodableSession

\* What the caller of validate_token gets when the call raises instead of
\* returning a CSRFValidation.
UnicodeEncodeError ==
    [status |-> "UnicodeEncodeError", valid |-> FALSE, token |-> None,
     age_seconds |-> None]

\* generate_token(session_id) at time current_time when token_urlsafe returns
\* random_part: the validator afterwards and the token returned, None when
\* the call raises at message.encode.
generate_token(self, session_id, current_time, random_part) ==
    IF encode_raises(session_id)
    THEN [self |-> [self EXCEPT !.total_generated = self.total_generated + 1],
          token |-> None]
    ELSE
    LET timestamp == current_time
        signature == hmac_sha256_16(self.secret_key, session_id, timestamp,
                                    random_part)
        token == format_token(timestamp, random_part, signature)
        stored == [self EXCEPT
                      !.total_generated = self.total_generated + 1,
                      !.issued_tokens =
                          {e \in self.issued_tokens : e.token # token}
                          \cup {[token |-> token, timestamp |-> timestamp]}]
    IN  [self |-> IF Cardinality(stored.issued_tokens) > CleanupThreshold
                  THEN cleanup_old_tokens(stored, current_time)
                  ELSE stored,
         token |-> token]

CSRFValidation(status, valid, token, age_seconds) ==
    [status |-> status, valid |-> valid, token |-> token,
     age_seconds |-> age_seconds]

\* validate_token(token, session_id, allow_reuse) at time current_time: the
\* validator afterwards and the CSRFValidation returned, or the exception
\* raised.
validate_token(self, token, session_id, allow_reuse, current_time) ==
    LET counted == [self EXCEPT !.total_validated = self.total_validated + 1]
        rejected == [counted EXCEPT !.invalid_count = self.invalid_count + 1]
        parts == parse_token(token)
        expected_sig == HexSig(hmac_sha256_16(self.secret_key, session_id,
                                              parts.timestamp,
                                              parts.random_part))
        age_seconds == current_time - parts.timestamp
    IN  IF token = None \/ token = EmptyString
        THEN [self |-> rejected,
              result |-> CSRFValidation("missing", FALSE, None, None)]
        ELSE IF ~parts.ok
        THEN [self |-> rejected,
              result |-> CSRFValidation("invalid", FALSE, token, None)]
        ELSE IF ~is_issued(self, token)
        THEN [self |-> rejected,
              result |-> CSRFValidation("invalid", FALSE, token, None)]
        ELSE IF encode_raises(session_id)
        THEN [self |-> counted, result |-> UnicodeEncodeError]
        ELSE IF parts.signature # expected_sig
        THEN [self |-> rejected,
              result |-> CSRFValidation("invalid", FALSE, token, None)]
        ELSE IF is_expired(self, age_seconds)
        THEN [self |-> rejected,
              result |-> CSRFValidation("expired", FALSE, token, age_seconds)]
        ELSE IF ~allow_reuse /\ token \in self.used_tokens
        THEN [self |-> rejected,
              result |-> CSRFValidation("reused", FALSE, token, age_seconds)]
        ELSE [self |-> [counted EXCEPT
                           !.used_tokens = IF ~allow_reuse
                                           THEN self.used_tokens \cup {token}
                                           ELSE self.used_tokens,
                           !.valid_count = self.valid_count + 1],
              result |-> CSRFValidation("valid", TRUE, token, age_seconds)]

\* revoke_token(token)
revoke_token(self, token) ==
    [self EXCEPT
        !.issued_tokens = {e \in self.issued_tokens : e.token # token},
        !.used_tokens = self.used_tokens \cup {token}]

\* revoke_session_tokens(session_id)
revoke_session_tokens(self, session_id) ==
    [self EXCEPT !.issued_tokens = {}, !.used_tokens = {}]

\* ------------------------------------------------------- SwarmCoordinator
\* The five agents in the order run starts them.
Agents ==
    <<"Fetch-Sentry-02", "Fetch-Sentry-03", "Parse-Sentry-02",
      "Analyze-Sentry-01", "Alert-Sentry-01">>

\* SwarmCoordinator.__init__
SwarmCoordinator ==
    [results |-> {}, agents_completed |-> <<>>, agents_failed |-> <<>>]

\* self.results[key] = value: the dict is the set of its items.
store_result(self, key, value) ==
    [self EXCEPT !.results = {item \in self.results : item.key # key}
                             \cup {[key |-> key, value |-> value]}]

\* self.agents_completed.append(agent)
agent_completed(self, agent) ==
    [self EXCEPT !.agents_completed = Append(self.agents_completed, agent)]

\* self.agents_failed.append(agent)
agent_failed(self, agent) ==
    [self EXCEPT !.agents_failed = Append(self.agents_failed, agent)]

\* What a fetcher does: it raises, or returns a dict with its success flag
\* and its data, empty or not.
FetchOutcomes ==
    {[excepted |-> TRUE, success |-> FALSE, data |-> FALSE]}
    \cup {[excepted |-> FALSE, success |-> success, data |-> data] :
             success \in BOOLEAN, data \in BOOLEAN}

\* {'success': False, 'data': {}, 'error': str(e)}
FailureResult == [success |-> FALSE, data |-> FALSE]

\* The try statement of agent 1: what it leaves in the coordinator.
fetch_coingecko(self, outcome) ==
    IF outcome.excepted
    THEN store_result(agent_failed(self, Agents[1]), "coingecko",
                      FailureResult)
    ELSE IF outcome.success
    THEN store_result(agent_completed(self, Agents[1]), "coingecko",
                      [success |-> outcome.success, data |-> outcome.data])
    ELSE store_result(agent_failed(self, Agents[1]), "coingecko",
                      [success |-> outcome.success, data |-> outcome.data])

\* The try statement of agent 2.
fetch_binance(self, outcome) ==
    IF outcome.excepted
    THEN store_result(agent_failed(self, Agents[2]), "binance",
                      FailureResult)
    ELSE store_result(agent_completed(self, Agents[2]), "binance",
                      [success |-> outcome.success, data |-> outcome.data])

\* The result key of the agents 3 to 5.
ResultKey(n) ==
    CASE n = 3 -> "aggregated" [] n = 4 -> "alerts" [] n = 5 -> "delivery"

\* The try statement of agent n in 3..5, recording the agent as completed
\* before the statement that raises.
later_agent_completed_first(self, n, excepted) ==
    IF excepted
    THEN agent_failed(agent_completed(self, Agents[n]), Agents[n])
    ELSE store_result(agent_completed(self, Agents[n]), ResultKey(n),
                      [success |-> TRUE, data |-> TRUE])

\* The try statement of agent n in 3..5.
later_agent(self, n, excepted) ==
    IF excepted
    THEN agent_failed(self, Agents[n])
    ELSE store_result(agent_completed(self, Agents[n]), ResultKey(n),
                      [success |-> TRUE, data |-> TRUE])

\* _finalize without the count of the completed agents.
finalize_uncounted(self, success) == success

\* _finalize(success): what it returns.
finalize(self, success) == success /\ Len(self.agents_completed) = 5

\* ------------------------------------------------------------------ state
VARIABLES
    pc,          \* where test_kyber768 is: idle, keyed, encapsulated, done
    public_key,  \* keygen's first result
    secret_key,  \* keygen's second result
    ciphertext,  \* encapsulate's first result
    ss_alice,    \* encapsulate's second result
    ss_bob,      \* decapsulate's result
    kg,          \* the locals of the keygen call: A, s, e, and its draws
    enc,         \* the locals of the encapsulate call: m, A, r, e1, e2, u, v
    dec,         \* the locals of the decapsulate call: u, v, m_poly, m
    call,        \* a direct call of one function: fn, args, raised, ret
    validator,   \* the CSRFTokenValidator object: its attributes
    now,         \* int(time.time())
    last,        \* the last call on the validator: arguments and result
    validated,   \* the tokens validate_token has reported VALID with
                 \* allow_reuse=False
    calls,       \* the calls made on the validator so far: how many of
                 \* generate_token, how many of validate_token that
                 \* returned VALID
    threads,     \* per thread, its Kyber768 call: status, the step it is
                 \* at, the call's arguments and draws, what it returned
    frame,       \* the locals of the running calls
    instance,    \* the attributes of the Kyber768 object
    alone,       \* the same calls run alone, one after the other: what
                 \* each draws, builds and returns
    sampler,     \* a uniform_sample call statement by statement: where it
                 \* is, poly, ctr, three_bytes, what it returned
    coordinator, \* the SwarmCoordinator object: its attributes
    swarm        \* SwarmCoordinator.run: where it is, the agents it has
                 \* started, those that raised, what it returned

csrf_vars == <<validator, now, last, validated, calls>>

thread_vars == <<threads, frame, instance, alone>>

sampler_vars == <<sampler>>

swarm_vars == <<coordinator, swarm>>

vars == <<pc, public_key, secret_key, ciphertext, ss_alice, ss_bob,
          kg, enc, dec, call, csrf_vars, thread_vars, sampler_vars, swarm_vars>>

harness_vars == <<pc, public_key, secret_key, ciphertext, ss_alice, ss_bob,
                  kg, enc, dec>>

\* What a direct call leaves alone.
kem_vars == <<harness_vars, csrf_vars, thread_vars, sampler_vars, swarm_vars>>

NoCall == [fn |-> "none", args |-> <<>>, raised |-> FALSE, ret |-> <<>>]

\* The outcomes of the randomness source the concurrent calls are run with.
ThreadOutcomes == {3, 8}
\* The key pair and the ciphertext that encapsulate and decapsulate calls are
\* given.
GivenKeys == keygen(5)
GivenCiphertext == encapsulate(GivenKeys.public_key, 6).ciphertext

\* The operations of a Kyber768 object.
Operations == {"keygen", "encapsulate", "decapsulate"}

\* The calls run alone, one after the other: each operation under each
\* outcome of the randomness source, with what keygen, encapsulate or
\* decapsulate makes of the arguments and draws of the call.
AloneRuns ==
    [op \in Operations |->
        [g \in ThreadOutcomes |->
            CASE op = "keygen" -> keygen(g)
              [] op = "encapsulate" -> encapsulate(GivenKeys.public_key, g)
              [] op = "decapsulate" ->
                    decapsulate(GivenCiphertext, GivenKeys.secret_key)]]

Init ==
    /\ pc = "idle"
    /\ public_key = None
    /\ secret_key = None
    /\ ciphertext = None
    /\ ss_alice = None
    /\ ss_bob = None
    /\ kg = None
    /\ enc = None
    /\ dec = None
    /\ call = NoCall
    /\ validator = CSRFTokenValidator(1, TokenExpiry)
    /\ now = 0
    /\ last = [op |-> "init"]
    /\ validated = {}
    /\ calls = [generate_token |-> 0, returned_valid |-> 0]
    /\ threads = [t \in Threads |-> IdleThread]
    /\ frame = [t \in Threads |-> NoLocals]
    /\ instance = None
    /\ alone = None
    /\ sampler = IdleSampler
    /\ coordinator = SwarmCoordinator
    /\ swarm = [pc |-> "constructed", agent |-> 0, started |-> {},
                excepted |-> {}, returned |-> <<>>]

\* ------------------------------------------------- test_kyber768's steps
Keygen ==
    /\ pc = "idle"
    /\ call = NoCall
    /\ \E g \in 0..MaxEntropy : \E res \in {keygen(g)} :
              /\ public_key' = res.public_key
              /\ secret_key' = res.secret_key
              /\ kg' = [A |-> res.A, s |-> res.s, e |-> res.e,
                      drawn |-> res.drawn]
    /\ pc' = "keyed"
    /\ UNCHANGED <<ciphertext, ss_alice, ss_bob, enc, dec, call, csrf_vars, thread_vars, sampler_vars, swarm_vars>>

Encapsulate ==
    /\ pc = "keyed"
    /\ \E g \in 0..MaxEntropy : \E res \in {encapsulate(public_key, g)} :
              /\ ciphertext' = res.ciphertext
              /\ ss_alice' = res.shared_secret
              /\ enc' = [m |-> res.m, A |-> res.A, r |-> res.r,
                         e1 |-> res.e1, e2 |-> res.e2,
                         u |-> res.u, v |-> res.v, drawn |-> res.drawn]
    /\ pc' = "encapsulated"
    /\ UNCHANGED <<public_key, secret_key, ss_bob, kg, dec, call, csrf_vars, thread_vars, sampler_vars, swarm_vars>>

Decapsulate ==
    /\ pc = "encapsulated"
    /\ \E res \in {decapsulate(ciphertext, secret_key)} :
           /\ ss_bob' = res.shared_secret
           /\ dec' = [u |-> res.u, v |-> res.v,
                      m_poly |-> res.m_poly, m |-> res.m,
                      drawn |-> res.drawn]
    /\ pc' = "done"
    /\ UNCHANGED <<public_key, secret_key, ciphertext, ss_alice, kg, enc,
                   call, csrf_vars, thread_vars, sampler_vars, swarm_vars>>

\* ------------------------------------------------ direct calls: arguments
\* The lengths a polynomial, a vector and a message are passed with: the
\* right one, one less and one more.
PolyLens == {N - 1, N, N + 1}
VecLens == {K - 1, K, K + 1}
MsgLens == {SeedBytes - 1, SeedBytes, SeedBytes + 1}

\* A list of len integers: base, base + step, ...
TestPoly(len, base, step) == [i \in 1..len |-> base + (i - 1) * step]

\* A list of vlen lists of plen integers.
TestVec(vlen, plen, base) ==
    [i \in 1..vlen |-> TestPoly(plen, base + 7 * i, 3)]

\* rows lists of cols lists of plen integers.
TestMat(rows, cols, plen) ==
    [i \in 1..rows |-> [j \in 1..cols |-> TestPoly(plen, 100 * i + 10 * j, 1)]]

\* A byte string of len bytes: b, b + 1, ... (mod 256).
TestMsg(len, b) == [k \in 1..len |-> (b + k - 1) % 256]

PolyBases == {-5, 0, 1664, 3000}
MsgStarts == {0, 165, 255}
\* The first bytes of the messages decoded under noise.
NoisyMsgStarts == {0, 90, 255}

\* Well-shaped ciphertexts and secret keys that no encapsulate or keygen call
\* need have produced.
CtSeeds == {0, 1, 77, 511, 1023}
CvSeeds == {0, 1, 7, 15}
SkSeeds == {-1, 0, 1, 2, 1664, 5000}
AnyCiphertext(a, b) ==
    [u |-> [i \in 1..K |-> [k \in 1..N |-> (a * (i + 2 * k - 2)) % Pow2(DU)]],
     v |-> [k \in 1..N |-> (b * k) % Pow2(DV)]]
AnySecretKey(c) == [s |-> [i \in 1..K |-> [k \in 1..N |-> c * (i + k - 1)]]]

Returned(fn, args, ret) ==
    [fn |-> fn, args |-> args, raised |-> FALSE, ret |-> ret]
Raised(fn, args) ==
    [fn |-> fn, args |-> args, raised |-> TRUE, ret |-> <<>>]

\* ---------------------------------------------------------- direct calls
CallModQ ==
    /\ pc = "idle" /\ call = NoCall
    /\ \E x \in (-MaxAbsX)..MaxAbsX :
          call' = Returned("mod_q", <<x>>, mod_q(x))
    /\ UNCHANGED kem_vars

CallPolyAdd ==
    /\ pc = "idle" /\ call = NoCall
    /\ \E la \in PolyLens, lb \in PolyLens, x \in PolyBases, y \in PolyBases :
          \E a \in {TestPoly(la, x, 1)}, b \in {TestPoly(lb, y, 211)} :
             call' = IF poly_add_raises(a, b)
                     THEN Raised("poly_add", <<a, b>>)
                     ELSE Returned("poly_add", <<a, b>>, poly_add(a, b))
    /\ UNCHANGED kem_vars

CallPolySub ==
    /\ pc = "idle" /\ call = NoCall
    /\ \E la \in PolyLens, lb \in PolyLens, x \in PolyBases, y \in PolyBases :
          \E a \in {TestPoly(la, x, 1)}, b \in {TestPoly(lb, y, 211)} :
             call' = IF poly_sub_raises(a, b)
                     THEN Raised("poly_sub", <<a, b>>)
                     ELSE Returned("poly_sub", <<a, b>>, poly_sub(a, b))
    /\ UNCHANGED kem_vars

CallVectorAdd ==
    /\ pc = "idle" /\ call = NoCall
    /\ \E l1 \in VecLens, l2 \in VecLens, p1 \in PolyLens, p2 \in PolyLens :
          \E v1 \in {TestVec(l1, p1, 0)}, v2 \in {TestVec(l2, p2, 1600)} :
             call' = IF vector_add_raises(v1, v2)
                     THEN Raised("vector_add", <<v1, v2>>)
                     ELSE Returned("vector_add", <<v1, v2>>, vector_add(v1, v2))
    /\ UNCHANGED kem_vars

CallVectorDot ==
    /\ pc = "idle" /\ call = NoCall
    /\ \E l1 \in VecLens, l2 \in VecLens, p1 \in PolyLens, p2 \in PolyLens :
          \E v1 \in {TestVec(l1, p1, 0)}, v2 \in {TestVec(l2, p2, 1600)} :
             call' = IF vector_dot_raises(v1, v2)
                     THEN Raised("vector_dot", <<v1, v2>>)
                     ELSE Returned("vector_dot", <<v1, v2>>, vector_dot(v1, v2))
    /\ UNCHANGED kem_vars

CallMatrixVectorMul ==
    /\ pc = "idle" /\ call = NoCall
    /\ \E rows \in VecLens, cols \in VecLens, pa \in PolyLens,
          lv \in VecLens, pv \in PolyLens :
          \E A \in {TestMat(rows, cols, pa)}, v \in {TestVec(lv, pv, 0)} :
             call' = IF matrix_vector_mul_raises(A, v)
                     THEN Raised("matrix_vector_mul", <<A, v>>)
                     ELSE Returned("matrix_vector_mul", <<A, v>>,
                                   matrix_vector_mul(A, v))
    /\ UNCHANGED kem_vars

CallEncodeMessage ==
    /\ pc = "idle" /\ call = NoCall
    /\ \E len \in MsgLens, b \in MsgStarts :
          \E msg \in {TestMsg(len, b)} :
             call' = Returned("encode_message", <<msg>>, encode_message(msg))
    /\ UNCHANGED kem_vars

CallDecodeMessage ==
    /\ pc = "idle" /\ call = NoCall
    /\ \E len \in PolyLens, x \in PolyBases :
          \E poly \in {TestPoly(len, x, 211)} :
             call' = IF decode_message_raises(poly)
                     THEN Raised("decode_message", <<poly>>)
                     ELSE Returned("decode_message", <<poly>>,
                                   decode_message(poly))
    /\ UNCHANGED kem_vars

\* decompress(compress(p, d), d), as decapsulate undoes what encapsulate did,
\* on the polynomial x0, x0 + 1, ... (mod q).
CallCompressDecompress ==
    /\ pc = "idle" /\ call = NoCall
    /\ \E x0 \in 0..(Q - 1), d \in {DV, DU} :
          \E p \in {[i \in 1..N |-> (x0 + i - 1) % Q]} :
             call' = Returned("compress_decompress", <<p, d>>,
                              decompress(compress(p, d), d))
    /\ UNCHANGED kem_vars

\* decode_message(encode_message(m)) for every message m.
CallEncodeDecode ==
    /\ pc = "idle" /\ call = NoCall
    /\ \E m \in [1..SeedBytes -> 0..255] :
          \E m_poly \in {encode_message(m)} :
             call' = Returned("encode_decode", <<m, m_poly>>,
                              decode_message(m_poly))
    /\ UNCHANGED kem_vars

\* decode_message(poly_add(encode_message(m), n)) for the offset polynomial n
\* with +nv in the even and -nv in the odd coefficients.
CallDecodeNoisy ==
    /\ pc = "idle" /\ call = NoCall
    /\ \E b \in NoisyMsgStarts, nv \in (1 - Q \div 4)..(Q \div 4 - 1) :
          \E m \in {TestMsg(SeedBytes, b)},
             n \in {[i \in 1..N |-> IF i % 2 = 1 THEN nv ELSE -nv]} :
             call' = Returned("decode_noisy", <<m, n>>,
                              decode_message(poly_add(encode_message(m), n)))
    /\ UNCHANGED kem_vars

CallDecapsulate ==
    /\ pc = "idle" /\ call = NoCall
    /\ \E a \in CtSeeds, b \in CvSeeds, c \in SkSeeds :
          \E ct \in {AnyCiphertext(a, b)}, sk \in {AnySecretKey(c)} :
             call' = IF decapsulate_raises(ct, sk)
                     THEN Raised("decapsulate", <<ct, sk>>)
                     ELSE Returned("decapsulate", <<ct, sk>>,
                                   decapsulate(ct, sk).shared_secret)
    /\ UNCHANGED kem_vars

\* compress on the polynomial x0, x0 + 1, ... of integers from -q to q, the
\* centred and the canonical representatives among them.
CompressStarts == {N * k - Q : k \in 0..((2 * Q) \div N)}
CallCompress ==
    /\ pc = "idle" /\ call = NoCall
    /\ \E x0 \in CompressStarts, d \in {DV, DU} :
          \E p \in {[i \in 1..N |-> x0 + i - 1]} :
             call' = Returned("compress", <<p, d>>, compress(p, d))
    /\ UNCHANGED kem_vars

\* uniform_sample on the seed b, b + 1, ... and every matrix position.
CallUniformSample ==
    /\ pc = "idle" /\ call = NoCall
    /\ \E b \in 0..MaxSeedStart, i \in 0..(K - 1), j \in 0..(K - 1) :
          \E seed \in {TestMsg(SeedBytes, b)} :
             call' = Returned("uniform_sample", <<seed, i, j>>,
                              uniform_sample(seed, i, j))
    /\ UNCHANGED kem_vars

\* The parameters eta and the 64 * eta byte buffers cbd_sample is called
\* with: what the randomness source returns, all bits clear, all bits set,
\* and the bits of the first or of the second group of each coefficient set.
Etas == {1, ETA1, 3}
CbdBuffers(eta) ==
    {token_bytes(g, c, CbdBytes(eta)) : g \in 0..MaxEntropy, c \in 0..(2 * K + 1)}
    \cup {[k \in 1..CbdBytes(eta) |-> b] : b \in {51, 195, 204, 255}}

CallCbdSample ==
    /\ pc = "idle" /\ call = NoCall
    /\ \E eta \in Etas :
          \E randomness \in CbdBuffers(eta) :
             call' = Returned("cbd_sample", <<eta, randomness>>,
                              cbd_sample_trace(eta, randomness))
    /\ UNCHANGED kem_vars

\* The objects the functions are called on: two polynomials, two vectors and
\* a matrix; a public key, a secret key and a ciphertext as keygen and
\* encapsulate return them.
ArgumentHeap ==
    With(NewValue(<<>>, TestPoly(N, 1664, 1), 0),
         LAMBDA a :
    With(NewValue(a.heap, TestPoly(N, -5, 3), 0),
         LAMBDA b :
    With(NewValue(b.heap, TestVec(K, N, 0), 1),
         LAMBDA v1 :
    With(NewValue(v1.heap, TestVec(K, N, 1600), 1),
         LAMBDA v2 :
    With(NewValue(v2.heap, TestMat(K, K, N), 2),
         LAMBDA A :
    [heap |-> A.heap, polys |-> {a.ref, b.ref},
     vectors |-> {v1.ref, v2.ref}, matrices |-> {A.ref}])))))
PublicKeyObject(heap, pk) ==
    With(NewValue(heap, pk.rho, 0),
         LAMBDA rho :
    With(NewValue(rho.heap, pk.t, 1),
         LAMBDA t :
    NewObject(t.heap, Dict(<<"rho", "t">>, <<rho.ref, t.ref>>))))
SecretKeyObject(heap, sk) ==
    With(NewValue(heap, sk.s, 1),
         LAMBDA s :
    NewObject(s.heap, Dict(<<"s">>, <<s.ref>>)))
CiphertextObject(heap, ct) ==
    With(NewValue(heap, ct.u, 1),
         LAMBDA u :
    With(NewValue(u.heap, ct.v, 0),
         LAMBDA v :
    NewObject(v.heap, Dict(<<"u", "v">>, <<u.ref, v.ref>>))))
KeyHeap(keys, ct) ==
    With(PublicKeyObject(<<>>, keys.public_key),
         LAMBDA pko :
    With(SecretKeyObject(pko.heap, keys.secret_key),
         LAMBDA sko :
    With(CiphertextObject(sko.heap, ct),
         LAMBDA cto :
    [heap |-> cto.heap, public_key |-> pko.ref, secret_key |-> sko.ref,
     ciphertext |-> cto.ref])))

\* A call of a function on objects: the heap before it, the references it
\* is given, its other argument; the heap after it and what it returned.
CallOnPolys ==
    /\ pc = "idle" /\ call = NoCall
    /\ \E h \in {ArgumentHeap} :
          \E a \in h.polys, b \in h.polys :
             \/ call' = Returned("poly_add_on", <<h.heap, <<a, b>>, 0>>,
                                 poly_add_on(h.heap, a, b))
             \/ call' = Returned("poly_sub_on", <<h.heap, <<a, b>>, 0>>,
                                 poly_sub_on(h.heap, a, b))
             \/ \E d \in {DU, DV} :
                   call' = Returned("compress_on", <<h.heap, <<a>>, d>>,
                                    compress_on(h.heap, a, d))
             \/ \E d \in {DU, DV} :
                   call' = Returned("decompress_on", <<h.heap, <<a>>, d>>,
                                    decompress_on(h.heap, a, d))
    /\ UNCHANGED kem_vars

CallOnVectors ==
    /\ pc = "idle" /\ call = NoCall
    /\ \E h \in {ArgumentHeap} :
          \E v1 \in h.vectors, v2 \in h.vectors :
             \/ call' = Returned("vector_add_on", <<h.heap, <<v1, v2>>, 0>>,
                                 vector_add_on(h.heap, v1, v2))
             \/ call' = Returned("vector_dot_on", <<h.heap, <<v1, v2>>, 0>>,
                                 vector_dot_on(h.heap, v1, v2))
             \/ \E A \in h.matrices :
                   call' = Returned("matrix_vector_mul_on",
                                    <<h.heap, <<A, v1>>, 0>>,
                                    matrix_vector_mul_on(h.heap, A, v1))
    /\ UNCHANGED kem_vars

CallOnKeys ==
    /\ pc = "idle" /\ call = NoCall
    /\ \E g \in 1..MaxEntropy, c \in {1, MaxEntropy} :
       \E keys \in {keygen(g)} :
       \E ct \in {encapsulate(keys.public_key, c).ciphertext} :
          \E h \in {KeyHeap(keys, ct)} :
             \/ call' = Returned("encapsulate_on",
                                 <<h.heap, <<h.public_key>>, g>>,
                                 encapsulate_on(h.heap, h.public_key, g))
             \/ call' = Returned("decapsulate_on",
                                 <<h.heap, <<h.ciphertext, h.secret_key>>, 0>>,
                                 decapsulate_on(h.heap, h.ciphertext,
                                                h.secret_key))
    /\ UNCHANGED kem_vars

Next ==
    \/ Keygen
    \/ Encapsulate
    \/ Decapsulate
    \/ CallModQ
    \/ CallPolyAdd
    \/ CallPolySub
    \/ CallVectorAdd
    \/ CallVectorDot
    \/ CallMatrixVectorMul
    \/ CallEncodeMessage
    \/ CallDecodeMessage
    \/ CallCompressDecompress
    \/ CallEncodeDecode
    \/ CallDecodeNoisy
    \/ CallDecapsulate
    \/ CallCompress
    \/ CallUniformSample
    \/ CallCbdSample
    \/ CallOnPolys
    \/ CallOnVectors
    \/ CallOnKeys

Spec == Init /\ [][Next]_vars

\* ----------------------------------- direct calls: side-channel mitigations
\* masked_multiplication on operands below and above the modulus, with every
\* pair of masks randbits(bit_length) can return.
CallMaskedMultiplication ==
    /\ pc = "idle" /\ call = NoCall
    /\ \E a \in 0..MaxOperand, b \in 0..MaxOperand, n \in 0..MaxBits :
          \E mask_a \in 0..(Pow2(n) - 1), mask_b \in 0..(Pow2(n) - 1) :
             call' = Returned("masked_multiplication",
                              <<a, b, n, mask_a, mask_b>>,
                              masked_multiplication(a, b, n, mask_a, mask_b))
    /\ UNCHANGED kem_vars

\* The lists and indices the array functions are called with: every list of
\* up to MaxListLen of these values, every index from one before the list to
\* one past it.
ListValues == {-3, 0, 6, 255}
Lists == UNION {[1..len -> ListValues] : len \in 0..MaxListLen}
IndexLists(data) ==
    UNION {[1..len -> -1..Len(data)] : len \in 0..MaxIndices}

CallConstantTimeArrayAccess ==
    /\ pc = "idle" /\ call = NoCall
    /\ \E array \in Lists, index \in -1..MaxListLen :
          call' = Returned("constant_time_array_access", <<array, index>>,
                           constant_time_array_access(array, index))
    /\ UNCHANGED kem_vars

CallCacheObliviousLookup ==
    /\ pc = "idle" /\ call = NoCall
    /\ \E table \in Lists, index \in -1..MaxListLen :
          call' = Returned("cache_oblivious_lookup", <<table, index>>,
                           cache_oblivious_lookup(table, index))
    /\ UNCHANGED kem_vars

CallScatterGatherLoad ==
    /\ pc = "idle" /\ call = NoCall
    /\ \E data \in Lists :
          \E indices \in IndexLists(data) :
             call' = Returned("scatter_gather_load", <<data, indices>>,
                              scatter_gather_load(data, indices))
    /\ UNCHANGED kem_vars

SideChannelNext ==
    \/ CallMaskedMultiplication
    \/ CallConstantTimeArrayAccess
    \/ CallCacheObliviousLookup
    \/ CallScatterGatherLoad

SideChannelSpec == Init /\ [][SideChannelNext]_vars

\* ------------------------------------------- CSRFTokenValidator: arguments
\* The sessions tokens are generated for, and a session that never asked
\* for one.
Sessions == {1}
OtherSession == Cardinality(Sessions) + 1

\* The token generate_token returns for a session at a time from a draw.
SignedToken(self, session_id, timestamp, random_part) ==
    format_token(timestamp, random_part,
                 hmac_sha256_16(self.secret_key, session_id, timestamp,
                                random_part))

\* "invalid.token.here", a string of two parts and one of four.
MalformedTokens ==
    {<<Word(1), Word(2), Word(3)>>,
     <<Digits(0, 0), Word(1)>>,
     <<Digits(0, 0), Word(1), HexSig(0), HexSig(0)>>}

\* The strings that are no token, whatever the session.
NoTokens == {None, EmptyString} \cup MalformedTokens

\* The three-part strings a client sends at time current_time: the tokens the
\* validator holds or has reported VALID, an issued token with a zero before
\* its timestamp, and a correctly signed token that generate_token never
\* returned.
TokenInputs(self, current_time) ==
    issued_keys(self) \cup self.used_tokens \cup validated
    \cup {[t EXCEPT ![1] = Digits(t[1].n, 1)] : t \in issued_keys(self)}
    \cup {SignedToken(self, s, current_time, 0) : s \in Sessions}

\* The sessions generate_token is called for: the session id that cannot be
\* encoded asks before any other session does.
GenerateSessions(self) ==
    IF self.total_generated = 0 THEN Sessions \cup {UnencodableSession}
    ELSE Sessions

\* What validate_token is called with for a session: every string for the
\* sessions that hold tokens, the three-part strings for the session that
\* holds none, and for the session id that cannot be encoded the tokens the
\* validator holds, each once (the call raises before it reads allow_reuse).
ValidateInputs(self, current_time, session_id, allow_reuse) ==
    IF session_id \in Sessions
    THEN TokenInputs(self, current_time) \cup NoTokens
    ELSE IF session_id = OtherSession
    THEN TokenInputs(self, current_time)
    ELSE IF allow_reuse THEN {} ELSE issued_keys(self)

\* -------------------------------------------- CSRFTokenValidator: actions
\* time.time() advances by a second.
Tick ==
    /\ now < MaxTime
    /\ now' = now + 1
    /\ last' = [op |-> "tick"]
    /\ UNCHANGED <<validator, validated, calls, harness_vars, thread_vars,
                   sampler_vars, swarm_vars,
                 call>>

\* The n-th token_urlsafe draw of a run returns the n-th word.
GenerateToken ==
    /\ validator.total_generated < MaxTokens
    /\ \E session_id \in GenerateSessions(validator) :
          \E res \in {generate_token(validator, session_id, now,
                                     validator.total_generated + 1)} :
             /\ validator' = res.self
             /\ last' = [op |-> "generate_token", token |-> res.token,
                         session_id |-> session_id]
    /\ calls' = [calls EXCEPT !.generate_token = @ + 1]
    /\ UNCHANGED <<now, validated, harness_vars, thread_vars,
                   sampler_vars, swarm_vars,
                 call>>

ValidateToken ==
    /\ validator.total_validated < MaxValidations
    /\ \E session_id \in Sessions \cup {OtherSession, UnencodableSession},
          allow_reuse \in BOOLEAN :
       \E token \in ValidateInputs(validator, now, session_id, allow_reuse) :
          \E res \in {validate_token(validator, token, session_id,
                                     allow_reuse, now)} :
             /\ validator' = res.self
             /\ last' = [op |-> "validate_token", token |-> token,
                         session_id |-> session_id,
                         allow_reuse |-> allow_reuse,
                         result |-> res.result,
                         validated_before |-> token \in validated]
             /\ validated' = IF res.result.status = "valid" /\ ~allow_reuse
                             THEN validated \cup {token}
                             ELSE validated
             /\ calls' = IF res.result.status = "valid"
                         THEN [calls EXCEPT !.returned_valid = @ + 1]
                         ELSE calls
    /\ UNCHANGED <<now, harness_vars, thread_vars, sampler_vars, swarm_vars,
                 call>>

RevokeToken ==
    /\ \E token \in issued_keys(validator) :
          /\ validator' = revoke_token(validator, token)
          /\ last' = [op |-> "revoke_token", token |-> token]
    /\ UNCHANGED <<now, validated, calls, harness_vars, thread_vars,
                   sampler_vars, swarm_vars,
                 call>>

RevokeSessionTokens ==
    /\ validator.issued_tokens # {} \/ validator.used_tokens # {}
    /\ \E session_id \in Sessions \cup {OtherSession} :
          /\ validator' = revoke_session_tokens(validator, session_id)
          /\ last' = [op |-> "revoke_session_tokens",
                      session_id |-> session_id]
    /\ UNCHANGED <<now, validated, calls, harness_vars, thread_vars,
                   sampler_vars, swarm_vars,
                 call>>

CsrfNext ==
    \/ Tick
    \/ GenerateToken
    \/ ValidateToken
    \/ RevokeToken
    \/ RevokeSessionTokens

CsrfSpec == Init /\ [][CsrfNext]_vars

\* ------------------------------------------------ Kyber768: concurrent calls
\* A call: the operation, the outcome of the randomness source its draws
\* come from, and its arguments.
Task(op, g) ==
    [op |-> op, g |-> g,
     args |-> CASE op = "keygen" -> <<>>
                [] op = "encapsulate" -> <<GivenKeys.public_key>>
                [] op = "decapsulate" ->
                      <<GivenCiphertext, GivenKeys.secret_key>>]

\* The call task run alone.
Alone(task) == alone[task.op][task.g]

\* Before the threads start, each call is run alone.
RunAlone ==
    /\ alone = None
    /\ alone' = AloneRuns
    /\ UNCHANGED <<threads, frame, instance, harness_vars, csrf_vars, sampler_vars, swarm_vars,
                 call>>

\* A thread calls keygen, encapsulate or decapsulate: the call gets its locals.
StartCall(t) ==
    /\ alone # None
    /\ threads[t].status = "idle"
    /\ \E op \in Operations, g \in ThreadOutcomes :
          threads' = [threads EXCEPT ![t] =
                         [status |-> "running", pc |-> 1,
                          task |-> Task(op, g), draws |-> 0,
                          result |-> <<>>]]
    /\ frame' = [frame EXCEPT ![Locals(t)] = NoLocals]
    /\ UNCHANGED <<instance, alone, harness_vars, csrf_vars, sampler_vars, swarm_vars,
                 call>>

\* The call of thread t takes its next step.
StepCall(t) ==
    /\ threads[t].status = "running"
    /\ LET task == threads[t].task
           step == Program(task.op)[threads[t].pc]
       IN  /\ step # "return"
           /\ \E next \in {StepLocals(task, step, frame[Locals(t)])} :
                 frame' = [frame EXCEPT ![Locals(t)] = next]
    /\ threads' = [threads EXCEPT
                      ![t].pc = @ + 1,
                      ![t].draws =
                          IF Program(threads[t].task.op)[threads[t].pc] = "draw"
                          THEN @ + 1 ELSE @]
    /\ UNCHANGED <<instance, alone, harness_vars, csrf_vars, sampler_vars, swarm_vars,
                 call>>

\* The randomness source fails on the draw the call of thread t is at.
DrawFails(t) ==
    /\ threads[t].status = "running"
    /\ Program(threads[t].task.op)[threads[t].pc] = "draw"
    /\ threads' = [threads EXCEPT ![t] = draw_failure(@)]
    /\ frame' = IF threads'[t].status = "raised"
                THEN [frame EXCEPT ![Locals(t)] = NoLocals]
                ELSE frame
    /\ UNCHANGED <<instance, alone, harness_vars, csrf_vars, sampler_vars, swarm_vars,
                 call>>

\* The call of thread t returns: the caller has the result, the locals are
\* gone.
ReturnCall(t) ==
    /\ threads[t].status = "running"
    /\ Program(threads[t].task.op)[threads[t].pc] = "return"
    /\ threads' = [threads EXCEPT ![t].status = "returned",
                                  ![t].result = frame[Locals(t)].out]
    /\ frame' = [frame EXCEPT ![Locals(t)] = NoLocals]
    /\ UNCHANGED <<instance, alone, harness_vars, csrf_vars, sampler_vars, swarm_vars,
                 call>>

ThreadsNext ==
    \/ RunAlone
    \/ \E t \in Threads : StartCall(t)
    \/ \E t \in Threads : StepCall(t)
    \/ \E t \in Threads : DrawFails(t)
    \/ \E t \in Threads : ReturnCall(t)

ThreadsSpec == Init /\ [][ThreadsNext]_vars

\* -------------------------------------- uniform_sample: statement by statement
\* The groups xof.digest(3 * (ctr + 1))[3 * ctr : 3 * (ctr + 1)] can be: both
\* values below q, both not (two such groups), only the second, only the
\* first.  digest returns as many bytes as it is asked for, so a group has
\* three bytes.
XofGroups ==
    {<<0, 0, 0>>, <<255, 255, 255>>, <<255, 255, 254>>, <<255, 15, 0>>,
     <<0, 0, 255>>}
\* ctr up to the last position the model tells apart.
GroupCap == N \div 2 + MaxSpareGroups
Min(a, b) == IF a < b THEN a ELSE b

\* poly = [], ctr = 0, xof = shake_128(...)
StartUniformSample ==
    /\ sampler.status = "idle"
    /\ sampler' = [IdleSampler EXCEPT !.status = "sampling"]
    /\ UNCHANGED <<harness_vars, csrf_vars, thread_vars, swarm_vars, call>>

\* One pass of while len(poly) < N.
IterateUniformSample ==
    /\ sampler.status = "sampling"
    /\ Len(sampler.poly) < N
    /\ \E three_bytes \in XofGroups :
          sampler' =
              IF Len(three_bytes) < 3
              THEN [sampler EXCEPT !.status = "returned",
                                   !.three_bytes = three_bytes,
                                   !.ctr = Min(@ + 1, GroupCap),
                                   !.value = SubSeq(sampler.poly, 1,
                                                  Min(Len(sampler.poly), N))]
              ELSE [sampler EXCEPT
                       !.three_bytes = three_bytes,
                       !.ctr = Min(@ + 1, GroupCap),
                       !.poly = uniform_sample_iteration(@, three_bytes)]
    /\ UNCHANGED <<harness_vars, csrf_vars, thread_vars, swarm_vars, call>>

\* The loop condition fails: return poly[:N].
ReturnUniformSample ==
    /\ sampler.status = "sampling"
    /\ ~(Len(sampler.poly) < N)
    /\ sampler' = [sampler EXCEPT
                      !.status = "returned",
                      !.value = SubSeq(sampler.poly, 1,
                                     Min(Len(sampler.poly), N))]
    /\ UNCHANGED <<harness_vars, csrf_vars, thread_vars, swarm_vars, call>>

SamplerNext ==
    \/ StartUniformSample
    \/ IterateUniformSample
    \/ ReturnUniformSample

SamplerSpec == Init /\ [][SamplerNext]_vars

\* The interpreter keeps running the call.
SamplerLiveSpec == SamplerSpec /\ WF_vars(SamplerNext)

\* ------------------------------------------------- SwarmCoordinator.run
\* "[n/5] ... starting...": run gets to the try statement of the next agent.
StartAgent ==
    /\ swarm.pc \in {"constructed", "between"}
    /\ swarm' = [swarm EXCEPT !.pc = "running", !.agent = @ + 1,
                              !.started = @ \cup {Agents[swarm.agent + 1]}]
    /\ UNCHANGED <<coordinator, harness_vars, csrf_vars, thread_vars,
                   sampler_vars, call>>

\* The try statements of the two fetch agents: whatever the fetcher does,
\* run goes on to the next agent.
Fetch ==
    /\ swarm.pc = "running"
    /\ swarm.agent \in {1, 2}
    /\ \E outcome \in FetchOutcomes :
          /\ coordinator' = IF swarm.agent = 1
                            THEN fetch_coingecko(coordinator, outcome)
                            ELSE fetch_binance(coordinator, outcome)
          /\ swarm' = [swarm EXCEPT
                          !.pc = "between",
                          !.excepted = IF outcome.excepted
                                       THEN @ \cup {Agents[swarm.agent]}
                                       ELSE @]
    /\ UNCHANGED <<harness_vars, csrf_vars, thread_vars, sampler_vars, call>>

\* The try statements of the parse, analyze and alert agents: an exception
\* returns _finalize(success=False), and after the alert agent run returns
\* _finalize(success=True).
RunLaterAgent ==
    /\ swarm.pc = "running"
    /\ swarm.agent \in 3..5
    /\ \E excepted \in BOOLEAN :
       \E self \in {later_agent(coordinator, swarm.agent, excepted)} :
          /\ coordinator' = self
          /\ swarm' = IF excepted
                      THEN [swarm EXCEPT
                               !.pc = "returned",
                               !.excepted = @ \cup {Agents[swarm.agent]},
                               !.returned = <<finalize(self, FALSE)>>]
                      ELSE IF swarm.agent = 5
                      THEN [swarm EXCEPT
                               !.pc = "returned",
                               !.returned = <<finalize(self, TRUE)>>]
                      ELSE [swarm EXCEPT !.pc = "between"]
    /\ UNCHANGED <<harness_vars, csrf_vars, thread_vars, sampler_vars, call>>

SwarmNext ==
    \/ StartAgent
    \/ Fetch
    \/ RunLaterAgent

SwarmSpec == Init /\ [][SwarmNext]_vars

\* =================================================================== claims
\* What the claims are stated with: the ring Z_q[X]/(X^N + 1) on canonical
\* representatives, independent of mod_q.
Centred(x) == LET r == x % Q IN IF 2 * r > Q THEN r - Q ELSE r
CongruentModQ(x, y) == (x - y) % Q = 0
PolyCongruent(a, b) ==
    Len(a) = Len(b) /\ \A i \in 1..Len(a) : CongruentModQ(a[i], b[i])
RingAdd(a, b) == [i \in 1..N |-> (a[i] + b[i]) % Q]
RingSub(a, b) == [i \in 1..N |-> (a[i] - b[i]) % Q]
RECURSIVE RingDotFrom(_, _, _)
RingDotFrom(v1, v2, i) ==
    IF i > Len(v1) THEN zero_poly
    ELSE RingAdd(poly_mul(v1[i], v2[i]), RingDotFrom(v1, v2, i + 1))
RingDot(v1, v2) == RingDotFrom(v1, v2, 1)
IsPoly(p) == Len(p) = N
IsVector(v) == Len(v) = K /\ \A i \in 1..Len(v) : IsPoly(v[i])
IsMatrix(A) ==
    Len(A) = K /\ \A i \in 1..Len(A) : IsVector(A[i])
IsZeroPoly(p) == \A i \in 1..Len(p) : p[i] = 0
Keyed == pc \in {"keyed", "encapsulated", "done"}
Sent == pc \in {"encapsulated", "done"}

\* The offset the claim C1 is conditioned on, per coefficient: the sampled
\* error dot(e, r) + e2 - dot(s, e1) plus what compressing and decompressing
\* v and u added, cv - dot(s, cu).
C1_Offset ==
    LET cv == RingSub(dec.v, enc.v)
        cu == [i \in 1..K |-> RingSub(dec.u[i], enc.u[i])]
        sampled == RingSub(RingAdd(RingDot(kg.e, enc.r), enc.e2),
                           RingDot(kg.s, enc.e1))
    IN  RingSub(RingAdd(sampled, cv), RingDot(kg.s, cu))
C1_OffsetSmall ==
    \A i \in 1..N : 4 * Abs(Centred(C1_Offset[i])) < Q

\* C1: round trip.  When test_kyber768 has run keygen, encapsulate and
\* decapsulate and the offset is below q/4 in every coefficient, the secret
\* decapsulate returned is the one encapsulate returned.
C1_RoundTrip ==
    (pc = "done" /\ C1_OffsetSmall) => ss_bob = ss_alice

\* C2: decoding tolerates noise.  decode_message of poly_add(encode_message(m),
\* n), for an offset n below q/4 in every coefficient, is m.
C2_NoiseTolerance ==
    call.fn = "decode_noisy" => call.ret = call.args[1]

\* C3: the matrix is regenerated.  The matrix encapsulate rebuilt from
\* public_key['rho'] equals, entry for entry, the matrix keygen built, and
\* each entry has N coefficients.
C3_SameMatrix ==
    Sent => /\ enc.A = kg.A
            /\ \A i \in 1..K, j \in 1..K :
                  /\ enc.A[i][j] = uniform_sample(public_key.rho, i - 1, j - 1)
                  /\ Len(enc.A[i][j]) = N

\* The two calls drew different samples and the matrix is not symmetric.
C3_Witness ==
    /\ pc = "encapsulated"
    /\ enc.A = kg.A
    /\ enc.r # kg.s
    /\ enc.e1 # kg.e
    /\ kg.A[1][2] # kg.A[2][1]

\* The centred distance modulo q of two coefficients.
CentredDist(x, y) == Abs(Centred(x - y))
CeilDiv(a, b) == (a + b - 1) \div b

\* C4: the compression bound.  Each coefficient of decompress(compress(p, d),
\* d) is within ceil(q / 2^(d+1)) of the coefficient of p, for p in [0, q).
C4_CompressionBound ==
    call.fn = "compress_decompress" =>
        LET p == call.args[1]
            d == call.args[2]
        IN  /\ Len(call.ret) = Len(p)
            /\ \A i \in 1..Len(p) :
                  CentredDist(call.ret[i], p[i]) <= CeilDiv(Q, Pow2(d + 1))

\* A coefficient at the bound for d = 10, and one that wraps to 0 for d = 4.
C4_Witness ==
    /\ call.fn = "compress_decompress"
    /\ \/ /\ call.args[2] = DU
          /\ \E i \in 1..N : CentredDist(call.ret[i], call.args[1][i]) = 2
       \/ /\ call.args[2] = DV
          /\ \E i \in 1..N : call.args[1][i] > Q - 100 /\ call.ret[i] = 0

\* C5: the noiseless message round trip.  decode_message(encode_message(m)) is
\* m, and coefficient 8k+j of encode_message(m) is bit j of byte k times q//2.
C5_EncodeDecode ==
    call.fn = "encode_decode" =>
        LET m == call.args[1]
            m_poly == call.args[2]
        IN  /\ call.ret = m
            /\ Len(m_poly) = 8 * Len(m)
            /\ \A k \in 0..(Len(m) - 1), j \in 0..7 :
                  m_poly[8 * k + j + 1] = Bit(m[k + 1], j) * (Q \div 2)

C5_Witness ==
    /\ call.fn = "encode_decode"
    /\ call.args[1][1] = 165
    /\ call.args[2][1] = Q \div 2
    /\ call.args[2][2] = 0
    /\ call.ret = call.args[1]

\* The integers the program has stored or returned as coefficients: what a
\* direct call of mod_q, poly_add or poly_sub returned, and the coefficients
\* of t and s and of the samples.
C6_Coefficients ==
    (IF call.fn = "mod_q" /\ ~call.raised THEN {call.ret} ELSE {})
    \cup (IF call.fn \in {"poly_add", "poly_sub"} /\ ~call.raised
          THEN {call.ret[i] : i \in 1..Len(call.ret)} ELSE {})
    \cup (IF Keyed
          THEN UNION {{public_key.t[i][k], secret_key.s[i][k], kg.e[i][k]} :
                        i \in 1..K, k \in 1..N}
          ELSE {})
    \cup (IF Sent
          THEN UNION {{enc.r[i][k], enc.e1[i][k], enc.e2[k]} :
                        i \in 1..K, k \in 1..N}
          ELSE {})

C6_Congruent ==
    /\ call.fn = "mod_q" => CongruentModQ(call.ret, call.args[1])
    /\ call.fn = "poly_add" /\ ~call.raised =>
          \A i \in 1..N :
             CongruentModQ(call.ret[i], call.args[1][i] + call.args[2][i])
    /\ call.fn = "poly_sub" /\ ~call.raised =>
          \A i \in 1..N :
             CongruentModQ(call.ret[i], call.args[1][i] - call.args[2][i])

C7_Shapes ==
    /\ Keyed => /\ IsVector(public_key.t)
                /\ IsVector(secret_key.s)
                /\ IsVector(kg.e)
                /\ IsMatrix(kg.A)
    /\ Sent => /\ IsVector(ciphertext.u)
               /\ IsPoly(ciphertext.v)
               /\ IsVector(enc.u)
               /\ IsPoly(enc.v)
               /\ IsVector(enc.r)
               /\ IsVector(enc.e1)
               /\ IsPoly(enc.e2)
               /\ IsMatrix(enc.A)

C7_Witness ==
    /\ pc = "encapsulated"
    /\ IsVector(ciphertext.u)
    /\ IsPoly(ciphertext.v)
    /\ ~IsZeroPoly(ciphertext.v)
    /\ ~IsZeroPoly(secret_key.s[1])

\* Whether the arguments of the direct call have the lengths the function is
\* documented with.
C8_Functions ==
    {"poly_add", "poly_sub", "vector_add", "vector_dot", "matrix_vector_mul",
     "encode_message", "decode_message"}
C8_WellShaped ==
    CASE call.fn \in {"poly_add", "poly_sub"} ->
            IsPoly(call.args[1]) /\ IsPoly(call.args[2])
      [] call.fn \in {"vector_add", "vector_dot"} ->
            IsVector(call.args[1]) /\ IsVector(call.args[2])
      [] call.fn = "matrix_vector_mul" ->
            IsMatrix(call.args[1]) /\ IsVector(call.args[2])
      [] call.fn = "encode_message" -> Len(call.args[1]) = SeedBytes
      [] call.fn = "decode_message" -> IsPoly(call.args[1])
      [] OTHER -> TRUE

\* C8: wrong lengths fail fast.  A call of one of the seven functions with an
\* argument of the wrong length raises.
C8_FailFast ==
    (call.fn \in C8_Functions /\ ~C8_WellShaped) => call.raised

C9_WellShapedCiphertext(ct) ==
    /\ IsVector(ct.u)
    /\ IsPoly(ct.v)
    /\ \A i \in 1..K, k \in 1..N : ct.u[i][k] \in 0..(Pow2(DU) - 1)
    /\ \A k \in 1..N : ct.v[k] \in 0..(Pow2(DV) - 1)

\* C9: decapsulate is total.  On a well-shaped ciphertext and secret key, made
\* by encapsulate and keygen or not, it raises nothing and returns 32 bytes.
C9_DecapsulateTotal ==
    /\ call.fn = "decapsulate" =>
          ((C9_WellShapedCiphertext(call.args[1]) /\ IsVector(call.args[2].s))
             => (~call.raised /\ call.ret.digest_size = 32))
    /\ Sent => ~decapsulate_raises(ciphertext, secret_key)
    /\ pc = "done" => ss_bob.digest_size = 32

\* A ciphertext and a key with coefficients outside [0, q) that keygen and
\* encapsulate did not make.
C9_Witness ==
    /\ call.fn = "decapsulate"
    /\ C9_WellShapedCiphertext(call.args[1])
    /\ call.args[1].u[1][1] = Pow2(DU) - 1
    /\ call.args[2].s[1][N] > Q
    /\ ~call.raised

\* C10: keygen.  t[i] is, coefficient-wise modulo q, the sum over j of
\* ringMultiply(uniform_sample(rho, i, j), s[j]) plus e[i], for the s and e
\* the call drew, and the secret key holds that s.
C10_Keygen ==
    Keyed =>
        /\ secret_key.s = kg.s
        /\ DOMAIN public_key = {"rho", "t"}
        /\ DOMAIN secret_key = {"s"}
        /\ \A i \in 1..K :
              PolyCongruent(
                 public_key.t[i],
                 RingAdd(RingDot([j \in 1..K |->
                                    uniform_sample(public_key.rho, i - 1, j - 1)],
                                 secret_key.s),
                         kg.e[i]))

C10_Witness ==
    /\ pc = "keyed"
    /\ \A i \in 1..K : ~IsZeroPoly(kg.s[i]) /\ ~IsZeroPoly(kg.e[i])
    /\ \E i \in 1..K, k \in 1..N : public_key.t[i][k] < 0


DecapsulateOf(ct, sk) ==
    LET du == [i \in 1..Len(ct.u) |-> decompress(ct.u[i], DU)]
        dv == decompress(ct.v, DV)
        diff == RingSub(dv, RingDot(sk.s, du))
    IN  sha256(decode_message([k \in 1..N |-> Centred(diff[k])]))

\* C12: decapsulate.  The returned secret is the hash of decode_message of
\* decompress(v, DV) - dot(s, decompress(u, DU)), a function of the ciphertext
\* and the secret key alone: the call draws nothing from the randomness
\* source.
C12_Decapsulate ==
    /\ pc = "done" =>
          /\ ss_bob = DecapsulateOf(ciphertext, secret_key)
          /\ dec.drawn = <<>>
    /\ (call.fn = "decapsulate" /\ ~call.raised) =>
          call.ret = DecapsulateOf(call.args[1], call.args[2])

\* A decapsulation after a keygen and an encapsulation that both drew, of a
\* message that is not all zero.
C12_Witness ==
    /\ pc = "done"
    /\ Len(kg.drawn) = 2 + 2 * K
    /\ Len(enc.drawn) = 2 + 2 * K
    /\ dec.drawn = <<>>
    /\ \E k \in 1..SeedBytes : dec.m[k] # 0
    /\ \E k \in 1..N : dec.m_poly[k] < 0

\* C13: the range of compress.  For the integers from -q to q, the centred
\* values among them, and d in {DV, DU}, every output of compress is in
\* [0, 2^d); every entry of a ciphertext's u is in [0, 1024) and of its v in
\* [0, 16).
C13_CompressRange ==
    /\ call.fn = "compress" =>
          /\ Len(call.ret) = Len(call.args[1])
          /\ \A i \in 1..Len(call.ret) :
                call.ret[i] \in 0..(Pow2(call.args[2]) - 1)
    /\ Sent =>
          /\ \A i \in 1..K, k \in 1..N : ciphertext.u[i][k] \in 0..1023
          /\ \A k \in 1..N : ciphertext.v[k] \in 0..15

\* A negative coefficient compressed to the top value 2^d - 1.
C13_Witness ==
    /\ call.fn = "compress"
    /\ \E i \in 1..N :
          /\ call.args[1][i] < 0
          /\ call.ret[i] = Pow2(call.args[2]) - 1

\* The XOF stream of seed || i || j read as in the claim C14: candidate n
\* (0, 1, ...) is taken from the 3-byte group n div 2, the first of the group
\* b0 + 256 * (b1 mod 16), the second floor(b1 / 16) + 16 * b2.
StreamCandidate(seed, i, j, n) ==
    LET xof == shake_128(seed \o <<i, j>>)
        g == n \div 2
        b0 == xof_digest_byte(xof, 3 * g)
        b1 == xof_digest_byte(xof, 3 * g + 1)
        b2 == xof_digest_byte(xof, 3 * g + 2)
    IN  IF n % 2 = 0 THEN b0 + 256 * (b1 % 16) ELSE (b1 \div 16) + 16 * b2
\* The candidates the claim is checked on: the first StreamLen of the stream.
StreamLen == 6 * N
StreamCandidates(seed, i, j) ==
    [n \in 1..StreamLen |-> StreamCandidate(seed, i, j, n - 1)]
IsCoefficient(d) == d < Q
StreamAccepted(seed, i, j) ==
    SelectSeq(StreamCandidates(seed, i, j), IsCoefficient)

\* C14: rejection sampling.  uniform_sample(seed, i, j) is the first N
\* candidates below q of the XOF stream of seed || i || j, in stream order;
\* every coefficient is in [0, q).
C14_RejectionSampling ==
    /\ call.fn = "uniform_sample" =>
          LET acc == StreamAccepted(call.args[1], call.args[2], call.args[3])
          IN  /\ Len(acc) >= N
              /\ call.ret = SubSeq(acc, 1, N)
              /\ \A k \in 1..N : call.ret[k] \in 0..(Q - 1)
    /\ Keyed =>
          \A i \in 1..K, j \in 1..K :
             kg.A[i][j] =
                 SubSeq(StreamAccepted(public_key.rho, i - 1, j - 1), 1, N)

\* A call whose stream has a candidate of q or more before the polynomial is
\* full: the output is not the first N candidates.
C14_Witness ==
    /\ call.fn = "uniform_sample"
    /\ LET c == StreamCandidates(call.args[1], call.args[2], call.args[3])
       IN  /\ \E n \in 1..N : c[n] >= Q
           /\ call.ret # SubSeq(c, 1, N)

\* C20: masked multiplication.  For non-negative a and b, every bit length n
\* and every pair of masks, masked_multiplication(a, b, n) is (a * b) mod 2^n.
C20_MaskedMultiplication ==
    call.fn = "masked_multiplication" =>
        call.ret = (call.args[1] * call.args[2]) % Pow2(call.args[3])

\* Operands whose product exceeds the modulus, under two different non-zero
\* masks whose sums with the operands wrap around.
C20_Witness ==
    /\ call.fn = "masked_multiplication"
    /\ LET a == call.args[1]
           b == call.args[2]
           m == Pow2(call.args[3])
       IN  /\ a * b >= m
           /\ call.args[4] # 0 /\ call.args[5] # 0
           /\ call.args[4] # call.args[5]
           /\ a + call.args[4] >= m
           /\ b + call.args[5] >= m
           /\ call.ret # 0

\* The keys of the dict issued_tokens.
IssuedNow == {e.token : e \in validator.issued_tokens}
\* The last call was validate_token.
Validated == last.op = "validate_token"
\* The age validate_token computes for the token of the last call.
TokenAge == now - parse_token(last.token).timestamp
\* The last call's token carries the signature of the call's session.
SignedForSession ==
    last.token = SignedToken(validator, last.session_id,
                             parse_token(last.token).timestamp,
                             parse_token(last.token).random_part)

\* C17: one-time use.  With allow_reuse=False, a token that validate_token
\* has reported VALID is never reported VALID again, whatever calls of
\* generate_token, validate_token, revoke_token and revoke_session_tokens
\* came between.
C17_OneTimeUse ==
    (Validated /\ ~last.allow_reuse /\ last.validated_before)
        => last.result.status # "valid"

\* validate_token returns MISSING, valid=False for no token and for the empty
\* string, and INVALID, valid=False for a string that is not three parts with
\* an integer first or is not in issued_tokens.
C18_Statuses ==
    Validated =>
        /\ (last.token = None \/ last.token = EmptyString)
              => (last.result.status = "missing" /\ ~last.result.valid)
        /\ (/\ last.token # None /\ last.token # EmptyString
            /\ \/ Len(last.token) # 3
               \/ last.token[1].kind # "digits"
               \/ last.token \notin IssuedNow)
              => (last.result.status = "invalid" /\ ~last.result.valid)

\* A validate_token call that returns MISSING or INVALID leaves issued_tokens
\* and used_tokens as they were.
C18_Frame ==
    [][(last'.op = "validate_token"
        /\ last'.result.status \in {"missing", "invalid"})
       => (/\ validator'.issued_tokens = validator.issued_tokens
           /\ validator'.used_tokens = validator.used_tokens)]_vars

\* C18: rejection statuses.  validate_token returns MISSING or INVALID with
\* valid=False as C18_Statuses says, and then leaves issued_tokens and
\* used_tokens unchanged.
C18_Rejections == []C18_Statuses /\ C18_Frame

\* A correctly signed token rejected as not issued, by a validator that holds
\* an issued and a used token.
C18_Witness ==
    /\ Validated
    /\ Len(last.token) = 3 /\ last.token[1].kind = "digits"
    /\ SignedForSession
    /\ last.token \notin IssuedNow
    /\ last.result.status = "invalid"
    /\ validator.issued_tokens # {}
    /\ validator.used_tokens # {}

\* validate_token never returns VALID for a token older than token_expiry; it
\* reports such a token EXPIRED when it is issued and signed for the session.
C19_Status ==
    (/\ Validated
     /\ Len(last.token) = 3 /\ last.token[1].kind = "digits"
     /\ TokenAge > validator.token_expiry)
        => /\ last.result.status # "valid"
           /\ (last.token \in IssuedNow /\ SignedForSession)
                 => /\ last.result.status = "expired"
                    /\ ~last.result.valid
                    /\ last.result.age_seconds = TokenAge

\* A validate_token call that returns EXPIRED leaves used_tokens as it was.
C19_Frame ==
    [][(last'.op = "validate_token" /\ last'.result.status = "expired")
       => validator'.used_tokens = validator.used_tokens]_vars

\* C19: expiry.  validate_token never returns VALID for a token whose age
\* exceeds token_expiry; an issued token signed for the session is reported
\* EXPIRED then and is not added to used_tokens.
C19_Expiry == []C19_Status /\ C19_Frame

\* An issued token of the session, never used, reported EXPIRED at the first
\* second after its expiry, with allow_reuse=False.
C19_Witness ==
    /\ Validated
    /\ ~last.allow_reuse
    /\ last.result.status = "expired"
    /\ TokenAge = validator.token_expiry + 1
    /\ last.token \in IssuedNow
    /\ last.token \notin validator.used_tokens

\* What the call task returns when it runs alone with the draws of outcome
\* task.g.
SoloResult(task) ==
    CASE task.op = "keygen" ->
            [public_key |-> Alone(task).public_key,
             secret_key |-> Alone(task).secret_key]
      [] task.op = "encapsulate" ->
            [ciphertext |-> Alone(task).ciphertext,
             shared_secret |-> Alone(task).shared_secret]
      [] task.op = "decapsulate" ->
            [shared_secret |-> Alone(task).shared_secret]

\* The steps named step among the first n of a call of op.
StepsDone(op, step, n) ==
    Cardinality({k \in 1..n : k <= Len(Program(op)) /\ Program(op)[k] = step})
\* The byte strings a call alone has drawn after n draws.
SoloDrawn(task, n) == SubSeq(Alone(task).drawn, 1, n)
\* The matrix a call alone builds.
SoloMatrix(task) == Alone(task).A

\* C15: isolation of concurrent calls.  However the steps of the calls of
\* the threads interleave, the locals of each running call are those of the
\* call running alone with the same draws, each call returns what it returns
\* alone, a call that is over has left no locals, and the Kyber768 object has
\* no attribute.
C15_Isolation ==
    /\ instance = None
    /\ \A t \in Threads :
          LET th == threads[t]
              loc == frame[Locals(t)]
              done == th.pc - 1
          IN  /\ th.status = "running" =>
                    /\ loc.drawn =
                          SoloDrawn(th.task, StepsDone(th.task.op, "draw", done))
                    /\ loc.A = IF StepsDone(th.task.op, "matrix", done) = 1
                               THEN SoloMatrix(th.task) ELSE None
                    /\ loc.out = IF StepsDone(th.task.op, "compute", done) = 1
                                 THEN <<SoloResult(th.task)>> ELSE <<>>
              /\ th.status = "returned" =>
                    /\ th.result = <<SoloResult(th.task)>>
                    /\ loc = NoLocals
              /\ th.status = "raised" => loc = NoLocals

\* Two calls of different operations under different draws, both past their
\* first draws and neither over: their steps interleave.
C15_Witness ==
    /\ threads["first"].status = "running"
    /\ threads["second"].status = "running"
    /\ threads["first"].task.op = "keygen"
    /\ threads["second"].task.op = "encapsulate"
    /\ threads["first"].task.g # threads["second"].task.g
    /\ threads["first"].pc = 6
    /\ threads["second"].pc = 10
    /\ Len(frame["first"].drawn) = 4
    /\ Len(frame["second"].drawn) = 8

\* The draws a call of op makes.
TotalDraws(op) == StepsDone(op, "draw", Len(Program(op)))

\* C16: all or nothing.  A keygen or encapsulate call on which a draw fails
\* ends raised with nothing returned; a call that is running has made every
\* draw before the step it is at; a call that returned has made every draw,
\* taken every step and returned the complete result.
C16_AllOrNothing ==
    \A t \in Threads :
       LET th == threads[t]
       IN  /\ th.status = "raised" =>
                 /\ th.result = <<>>
                 /\ th.task.op \in {"keygen", "encapsulate"}
                 /\ th.draws < TotalDraws(th.task.op)
           /\ th.status = "running" =>
                 /\ th.result = <<>>
                 /\ th.draws = StepsDone(th.task.op, "draw", th.pc - 1)
           /\ th.status = "returned" =>
                 /\ th.draws = TotalDraws(th.task.op)
                 /\ th.pc = Len(Program(th.task.op))
                 /\ th.result = <<SoloResult(th.task)>>

\* A keygen that failed on its fifth draw beside an encapsulate that failed
\* on its last: neither returned anything.
C16_Witness ==
    /\ threads["first"].status = "raised"
    /\ threads["first"].task.op = "keygen"
    /\ threads["first"].draws = 4
    /\ threads["first"].result = <<>>
    /\ threads["second"].status = "raised"
    /\ threads["second"].task.op = "encapsulate"
    /\ threads["second"].draws = 7
    /\ threads["second"].result = <<>>

\* C21: array access and lookup.  For every list and every index i with
\* 0 <= i < len(list), constant_time_array_access and cache_oblivious_lookup
\* return list[i]; scatter_gather_load returns the values at the requested
\* indices, in request order.
InRange(list, i) == 0 <= i /\ i < Len(list)
C21_ArrayAccess ==
    /\ call.fn \in {"constant_time_array_access", "cache_oblivious_lookup"}
       /\ InRange(call.args[1], call.args[2])
       => call.ret = call.args[1][call.args[2] + 1]
    /\ call.fn = "scatter_gather_load"
       /\ (\A n \in 1..Len(call.args[2]) :
              InRange(call.args[1], call.args[2][n]))
       => /\ Len(call.ret) = Len(call.args[2])
          /\ \A n \in 1..Len(call.args[2]) :
                call.ret[n] = call.args[1][call.args[2][n] + 1]

\* A gather from a list with a negative and a many-bit value, the last index
\* asked for first.
C21_Witness ==
    /\ call.fn = "scatter_gather_load"
    /\ call.args[1] = <<-3, 255, 6>>
    /\ call.args[2] = <<2, 0>>
    /\ call.ret = <<6, -3>>

\* The difference of two vectors of polynomials, in the ring.
RingVectorSub(v1, v2) == [i \in 1..Len(v1) |-> RingSub(v1[i], v2[i])]

\* C22: transpose identity.  With the A of keygen's t = A s + e, encapsulate's
\* u before compression satisfies dot(s, u - e1) = dot(t - e, r), and
\* v - dot(s, u) is encode_message(m) + dot(e, r) + e2 - dot(s, e1): no term
\* in A remains.
C22_TransposeIdentity ==
    Sent =>
        /\ PolyCongruent(RingDot(kg.s, RingVectorSub(enc.u, enc.e1)),
                         RingDot(RingVectorSub(public_key.t, kg.e), enc.r))
        /\ PolyCongruent(
              RingSub(enc.v, RingDot(kg.s, enc.u)),
              RingAdd(RingAdd(encode_message(enc.m), RingDot(kg.e, enc.r)),
                      RingSub(enc.e2, RingDot(kg.s, enc.e1))))

\* Bit n of a buffer: bit n mod 8 of byte floor(n / 8).
BufferBit(randomness, n) == (randomness[(n \div 8) + 1] \div Pow2(n % 8)) % 2
\* The sum of bits first .. final of a buffer.
BitSum(randomness, first, final) ==
    Cardinality({n \in first..final : BufferBit(randomness, n) = 1})
\* The bit number of a read.
ReadBit(read) == 8 * read.byte_pos + read.bit_pos
\* The bit numbers cbd_sample read, in the order it read them.
BitsRead == [p \in 1..Len(call.ret.reads) |-> ReadBit(call.ret.reads[p])]

\* cbd_sample's coefficients: coefficient i is the sum of bits 2 eta i ..
\* 2 eta i + eta - 1 minus the sum of bits 2 eta i + eta .. 2 eta i + 2 eta - 1,
\* reduced mod q; the polynomial is the one cbd_sample returns to keygen and
\* encapsulate.
C23_Coefficients ==
    call.fn = "cbd_sample" =>
        LET eta == call.args[1]
            randomness == call.args[2]
        IN  /\ Len(call.ret.poly) = N
            /\ call.ret.poly = cbd_sample(eta, randomness)
            /\ \A i \in 0..(N - 1) :
                  call.ret.poly[i + 1] =
                      Centred(BitSum(randomness, 2 * eta * i,
                                     2 * eta * i + eta - 1)
                              - BitSum(randomness, 2 * eta * i + eta,
                                       2 * eta * i + 2 * eta - 1))
\* Every bit of the buffer is read exactly once and no read is past the
\* buffer.
C23_EachBitOnce ==
    call.fn = "cbd_sample" =>
        LET bits == 8 * Len(call.args[2])
        IN  /\ Len(BitsRead) = bits
            /\ \A p \in 1..Len(BitsRead) :
                  /\ call.ret.reads[p].byte_pos < Len(call.args[2])
                  /\ BitsRead[p] \in 0..(bits - 1)
            /\ \A n \in 0..(bits - 1) :
                  Cardinality({p \in 1..Len(BitsRead) : BitsRead[p] = n}) = 1

\* C23 as stated: the coefficients, every bit read once and none past the
\* buffer, and the bits read in strictly increasing order.
C23_StrictlyIncreasingReads ==
    /\ C23_Coefficients
    /\ C23_EachBitOnce
    /\ call.fn = "cbd_sample" =>
          \A p \in 1..(Len(BitsRead) - 1) : BitsRead[p] < BitsRead[p + 1]

\* C23: cbd_sample.  The coefficients are as stated, every bit of the
\* 64 * eta byte buffer is read exactly once and none past it; the groups of
\* 2 * eta bits are read in increasing order, one coefficient after the
\* other, and within a coefficient the reads alternate between its two groups
\* of eta bits, each group in increasing order.
C23_CbdSample ==
    /\ C23_Coefficients
    /\ C23_EachBitOnce
    /\ call.fn = "cbd_sample" =>
          LET eta == call.args[1]
              Coefficient(n) == n \div (2 * eta)
              Group(n) == (n % (2 * eta)) \div eta
          IN  \A p, q \in 1..Len(BitsRead) :
                 p < q =>
                    /\ Coefficient(BitsRead[p]) <= Coefficient(BitsRead[q])
                    /\ Coefficient(BitsRead[p]) = Coefficient(BitsRead[q])
                       /\ Group(BitsRead[p]) = Group(BitsRead[q])
                       => BitsRead[p] < BitsRead[q]
                    /\ q = p + 1 /\ p % 2 = 1
                       => BitsRead[q] = BitsRead[p] + eta

\* A call with eta = 2 on a buffer with set and clear bits that returned
\* positive and negative coefficients and read bit 2 before bit 1.
C23_Witness ==
    /\ call.fn = "cbd_sample"
    /\ call.args[1] = ETA1
    /\ \E i \in 1..N : call.ret.poly[i] > 0
    /\ \E i \in 1..N : call.ret.poly[i] < 0
    /\ BitsRead[2] = 2 /\ BitsRead[3] = 1

\* A value below q occurred in the group just read.
BelowQOccurred ==
    /\ sampler.three_bytes # None
    /\ \/ uniform_sample_d1(sampler.three_bytes) < Q
       \/ uniform_sample_d2(sampler.three_bytes) < Q
\* The loop holds at most N values, and a call that returned left the loop
\* with exactly N and returned them.
C24_Length ==
    /\ Len(sampler.poly) <= N
    /\ sampler.status = "returned" =>
          /\ Len(sampler.poly) = N
          /\ sampler.value = sampler.poly
\* A call whose stream keeps bringing values below q returns.
C24_Returns ==
    ([]<>BelowQOccurred) => (sampler.status = "sampling" ~> sampler.status = "returned")
\* A call returns whatever the stream brings.
C24_ReturnsAlways ==
    sampler.status = "sampling" ~> sampler.status = "returned"

\* C24: uniform_sample terminates when values below q keep occurring in the
\* stream, and when it returns the polynomial has N coefficients: the loop is
\* not left with fewer, and the second value of a group is not appended once
\* N are reached.
C24_Termination == []C24_Length /\ C24_Returns

\* A call that returned after groups without a value below q, whose last
\* group filled the polynomial with its first value and had a second value
\* below q as well.
C24_Witness ==
    /\ sampler.status = "returned"
    /\ sampler.ctr > N \div 2 + 1
    /\ sampler.three_bytes = <<0, 0, 0>>
    /\ Len(sampler.value) = N

\* The objects reachable from a reference: the object and, through a list or
\* a dict, its items.
RECURSIVE Reachable(_, _)
Reachable(heap, ref) ==
    {ref} \cup
    IF heap[ref].refs
    THEN UNION {Reachable(heap, heap[ref].items[n]) :
                   n \in 1..Len(heap[ref].items)}
    ELSE {}
\* The value of an object: the nested list it stands for.
RECURSIVE ValueOf(_, _)
ValueOf(heap, ref) ==
    IF heap[ref].refs
    THEN [n \in 1..Len(heap[ref].items) |-> ValueOf(heap, heap[ref].items[n])]
    ELSE heap[ref].items
\* The calls on objects, and for each the value its function returns.
OnObjects ==
    {"poly_add_on", "poly_sub_on", "compress_on", "decompress_on",
     "vector_add_on", "vector_dot_on", "matrix_vector_mul_on",
     "encapsulate_on", "decapsulate_on"}
ArgumentValue(n) == ValueOf(call.args[1], call.args[2][n])
ReturnedObjects ==
    IF call.fn = "decapsulate_on" THEN {}
    ELSE Reachable(call.ret.heap, call.ret.ref)

\* What the function of a call on objects returns for the values of its
\* arguments.
ValueReturned ==
    CASE call.fn = "poly_add_on" -> poly_add(ArgumentValue(1), ArgumentValue(2))
      [] call.fn = "poly_sub_on" -> poly_sub(ArgumentValue(1), ArgumentValue(2))
      [] call.fn = "compress_on" -> compress(ArgumentValue(1), call.args[3])
      [] call.fn = "decompress_on" -> decompress(ArgumentValue(1), call.args[3])
      [] call.fn = "vector_add_on" ->
            vector_add(ArgumentValue(1), ArgumentValue(2))
      [] call.fn = "vector_dot_on" ->
            vector_dot(ArgumentValue(1), ArgumentValue(2))
      [] call.fn = "matrix_vector_mul_on" ->
            matrix_vector_mul(ArgumentValue(1), ArgumentValue(2))
      [] call.fn = "encapsulate_on" ->
            LET c == encapsulate([rho |-> ArgumentValue(1)[1],
                                  t |-> ArgumentValue(1)[2]],
                                 call.args[3]).ciphertext
            IN  <<c.u, c.v>>
      [] call.fn = "decapsulate_on" ->
            decapsulate([u |-> ArgumentValue(1)[1], v |-> ArgumentValue(1)[2]],
                        [s |-> ArgumentValue(2)[1]]).shared_secret

\* C25: no side effects on arguments.  After a call of poly_add, poly_sub,
\* vector_add, matrix_vector_mul, vector_dot, compress, decompress,
\* encapsulate or decapsulate every object that existed before the call is
\* as it was, the arguments with all they contain among them, and what is
\* returned is made of objects created by the call only.
C25_NoSideEffects ==
    call.fn \in OnObjects =>
        LET before == call.args[1]
            after == call.ret.heap
        IN  /\ Len(after) >= Len(before)
            /\ \A ref \in 1..Len(before) : after[ref] = before[ref]
            /\ \A ref \in ReturnedObjects : ref > Len(before)
            /\ ValueReturned =
                  IF call.fn = "decapsulate_on" THEN call.ret.shared_secret
                  ELSE ValueOf(after, call.ret.ref)
            /\ \A n \in 1..Len(call.args[2]) :
                  /\ ValueOf(after, call.args[2][n]) = ArgumentValue(n)
                  /\ Reachable(after, call.args[2][n]) \cap ReturnedObjects = {}

\* The sum of a polynomial with itself, returned as a third object.
C25_Witness ==
    /\ call.fn = "poly_add_on"
    /\ call.args[2][1] = call.args[2][2]
    /\ call.ret.ref # call.args[2][1]
    /\ ValueOf(call.ret.heap, call.ret.ref)
          = poly_add(ArgumentValue(1), ArgumentValue(2))
    /\ ValueOf(call.ret.heap, call.ret.ref) # ArgumentValue(1)

\* The draw each sampled value of keygen and of encapsulate is derived from:
\* its position among the draws of the call.
KeygenDraw == [rho |-> <<1>>, s |-> [i \in 1..K |-> 2 + i],
               e |-> [i \in 1..K |-> 2 + K + i]]
EncapsulateDraw == [m |-> <<1>>, r |-> [i \in 1..K |-> 1 + i],
                    e1 |-> [i \in 1..K |-> 1 + K + i], e2 |-> <<2 + 2 * K>>]
\* The positions a family of uses takes.
DrawsOf(uses) ==
    UNION {{uses[f][i] : i \in 1..Len(uses[f])} : f \in DOMAIN uses}
UsesOf(uses) == {<<f, i>> : f \in DOMAIN uses, i \in 1..K} \cap
                UNION {{<<f, i>> : i \in 1..Len(uses[f])} : f \in DOMAIN uses}

\* C26: fresh randomness per use.  In a keygen call rho, each polynomial of s
\* and each of e, and in an encapsulate call m, each polynomial of r, each of
\* e1, and e2, is derived from a draw of its own: the call made one draw for
\* each (keygen one more, sigma), and no draw serves two of them.
C26_FreshRandomness ==
    /\ Keyed =>
          /\ Len(kg.drawn) = 2 + 2 * K
          /\ Cardinality(DrawsOf(KeygenDraw)) = Cardinality(UsesOf(KeygenDraw))
          /\ DrawsOf(KeygenDraw) \subseteq 1..Len(kg.drawn)
          /\ public_key.rho = kg.drawn[KeygenDraw.rho[1]]
          /\ \A i \in 1..K :
                /\ kg.s[i] = cbd_sample(ETA1, kg.drawn[KeygenDraw.s[i]])
                /\ kg.e[i] = cbd_sample(ETA1, kg.drawn[KeygenDraw.e[i]])
    /\ Sent =>
          /\ Len(enc.drawn) = 2 + 2 * K
          /\ Cardinality(DrawsOf(EncapsulateDraw))
                = Cardinality(UsesOf(EncapsulateDraw))
          /\ DrawsOf(EncapsulateDraw) = 1..Len(enc.drawn)
          /\ enc.m = enc.drawn[EncapsulateDraw.m[1]]
          /\ enc.e2 = cbd_sample(ETA2, enc.drawn[EncapsulateDraw.e2[1]])
          /\ \A i \in 1..K :
                /\ enc.r[i] = cbd_sample(ETA1, enc.drawn[EncapsulateDraw.r[i]])
                /\ enc.e1[i] = cbd_sample(ETA2, enc.drawn[EncapsulateDraw.e1[i]])

\* A keygen and an encapsulate whose draws are all different byte strings, so
\* that a value derived from another's draw would differ.
C26_Witness ==
    /\ pc = "encapsulated"
    /\ \A i, j \in 1..Len(kg.drawn) : i # j => kg.drawn[i] # kg.drawn[j]
    /\ \A i, j \in 1..Len(enc.drawn) : i # j => enc.drawn[i] # enc.drawn[j]
    /\ \A i, j \in 1..K : kg.s[i] # kg.e[j] /\ enc.r[i] # enc.e1[j]

\* A coefficient standing for a value of magnitude at most 2 modulo q.
IsSmall(x) == Centred(x) \in -2..2
SmallPoly(p) == \A k \in 1..Len(p) : IsSmall(p[k])
SmallVector(v) == \A i \in 1..Len(v) : SmallPoly(v[i])

\* C27: smallness of samples.  Every coefficient cbd_sample(2, input) returns
\* stands for a value in {-2, ..., 2} modulo q, so every coefficient of s, e,
\* r, e1 and e2 in keygen and encapsulate has magnitude at most 2.
C27_Smallness ==
    /\ call.fn = "cbd_sample" /\ call.args[1] = 2 =>
          /\ Len(call.ret.poly) = N
          /\ SmallPoly(call.ret.poly)
    /\ Keyed => SmallVector(kg.s) /\ SmallVector(kg.e)
    /\ Sent => SmallVector(enc.r) /\ SmallVector(enc.e1) /\ SmallPoly(enc.e2)

\* An encapsulation where both ends of the range occur: 2 and -2 among the
\* coefficients of s and among those of r.
C27_Witness ==
    /\ pc = "encapsulated"
    /\ \E i \in 1..K, k \in 1..N : kg.s[i][k] = 2
    /\ \E i \in 1..K, k \in 1..N : kg.s[i][k] = -2
    /\ \E i \in 1..K, k \in 1..N : enc.r[i][k] = 2
    /\ \E i \in 1..K, k \in 1..N : enc.r[i][k] = -2

\* validate_token(token, session_id) would report VALID on the validator self
\* at the time it is.
WouldValidate(self, token, session_id) ==
    validate_token(self, token, session_id, FALSE, now).result.status = "valid"
\* token was issued for session_id.
IssuedFor(self, token, session_id) ==
    /\ token \in issued_keys(self)
    /\ token = SignedToken(self, session_id, parse_token(token).timestamp,
                           parse_token(token).random_part)

\* C28: revoke_session_tokens(S) revokes the tokens of S only.  After the
\* call no token issued for S validates VALID, and a token issued for another
\* session that would have validated VALID before the call still does.
C28_SessionOnly ==
    [][last'.op = "revoke_session_tokens" =>
          /\ \A token \in issued_keys(validator) :
                IssuedFor(validator, token, last'.session_id)
                => ~WouldValidate(validator', token, last'.session_id)
          /\ \A token \in issued_keys(validator) :
                \A other \in (Sessions \cup {OtherSession})
                               \ {last'.session_id} :
                   IssuedFor(validator, token, other)
                   /\ WouldValidate(validator, token, other)
                   => WouldValidate(validator', token, other)]_vars

\* C29: the statistics of the validator count its calls.  After any
\* sequence of generate_token and validate_token calls total_validated is
\* valid_count + invalid_count, valid_count is the number of validate_token
\* calls that returned VALID, and total_generated is the number of
\* generate_token calls.
C29_Statistics ==
    /\ validator.total_validated
           = validator.valid_count + validator.invalid_count
    /\ validator.valid_count = calls.returned_valid
    /\ validator.total_generated = calls.generate_token
\* The same, up to the first call that raises.
C29_StatisticsOfReturningCalls ==
    [][(C29_Statistics /\ last'.op \in {"generate_token", "validate_token"}
        /\ (last'.op = "validate_token"
               => last'.result.status # "UnicodeEncodeError"))
       => C29_Statistics']_vars

\* The elements of a list.
Recorded(list) == {list[n] : n \in 1..Len(list)}
\* Agent n has been started; it has finished without raising; it has ended,
\* raising or not.
AgentStarted(n) == Agents[n] \in swarm.started
AgentFinished(n) ==
    /\ AgentStarted(n)
    /\ Agents[n] \notin swarm.excepted
    /\ swarm.agent > n \/ swarm.pc \in {"between", "returned"}
AgentEnded(n) ==
    /\ AgentStarted(n)
    /\ swarm.agent > n \/ swarm.pc \in {"between", "returned"}

\* run returns True exactly when all five agents are in agents_completed.
C30_Result ==
    swarm.pc = "returned"
    => (swarm.returned = <<TRUE>>
        <=> \A n \in 1..5 : Agents[n] \in Recorded(coordinator.agents_completed))
\* An exception in the parse, analyze or alert agent ends the run at once,
\* with result False and no later agent started.
C30_ExceptionEndsRun ==
    \A n \in 3..5 :
       Agents[n] \in swarm.excepted
       => /\ swarm.pc = "returned"
          /\ swarm.returned = <<FALSE>>
          /\ \A later \in (n + 1)..5 : ~AgentStarted(later)
\* No agent is in both lists.
C30_NeverBoth ==
    Recorded(coordinator.agents_completed)
        \cap Recorded(coordinator.agents_failed) = {}
\* The analyze and alert agents start only after the agent before them has
\* finished without an exception.
C30_AfterFinishedAgent ==
    \A n \in 4..5 : AgentStarted(n) => AgentFinished(n - 1)

=========================================================================
